---- MODULE Spec2Model ----
(***************************************************************************)
(* Calibration trajectory generation and synchronized execution of         *)
(* EliteCalibration (cpp_extensions/elite_ext.cpp): run_calibration (9     *)
(* point grid) and run_3d_calibration (pyramid with inward tilt).          *)
(*                                                                         *)
(* Fixed-point representation of the doubles of the source:                *)
(*   internal lengths   : 1 unit = 1e-4 m   (0.1 mm)                       *)
(*   internal rotations : 1 unit = 1e-4 rad                                *)
(*   pose-provider readings: whole millimetres and whole degrees           *)
(* A pose is a function 0..5 -> Int, indexed as in the source.             *)
(***************************************************************************)
EXTENDS Integers, Sequences, FiniteSets, TLC

\* ---------------------------------------------------------------------
\* Program constants (elite_ext.cpp)
\* ---------------------------------------------------------------------
\* const double GRID_STEP = 0.05 (m)
GRID_STEP == 500
\* grid base wait: int timeout = 100
GRID_TIMEOUT == 100
\* pyramid base wait: int timeout = 200
BASE_TIMEOUT == 200
\* dither wait: timeout = 50
DITHER_TIMEOUT == 50
\* restore wait: timeout = 50
RESTORE_TIMEOUT == 50
\* std::sqrt(dist_sq) < 0.002 (m)
POS_TOL == 20
\* std::sqrt(rot_sq) < 0.05 (rad)
ROT_TOL == 500
\* settle sleeps in milliseconds
GRID_SETTLE_MS == 500
PYRAMID_SETTLE_MS == 1500
\* p_dither[2] += 0.0001 (m)
Z_SHIFT == 1
\* 2.0 * (1.0 / 57.29578) rad = 0.0349066 rad
RZ_PERTURB == 349

\* ---------------------------------------------------------------------
\* Bounds of the model
\* ---------------------------------------------------------------------
\* number of times the environment may deviate from the nominal behaviour
\* at a record sample or a capture call (short reading, raising capture
\* callback) within one run
MaxDeviations == 1
\* largest layer count explored by the point-generation specification
MaxLayers == 6

\* ---------------------------------------------------------------------
\* Poses and unit conversions
\* ---------------------------------------------------------------------
PoseIdx == 0..5

ZeroPose == [k \in PoseIdx |-> 0]

MkPose(x, y, z, rx, ry, rz) ==
    [k \in PoseIdx |-> CASE k = 0 -> x [] k = 1 -> y [] k = 2 -> z
                         [] k = 3 -> rx [] k = 4 -> ry [] OTHER -> rz]

\* integer quotient truncated toward zero (the fractional part of the
\* double is what the fixed-point representation drops)
TruncDiv(a, b) == IF a >= 0 THEN a \div b ELSE -((-a) \div b)

\* p[k] / 1000.0 : millimetres -> metres (internal units of 1e-4 m)
MmToM(mm) == mm * 10

\* p[k] / 57.29578 : degrees -> radians (internal units of 1e-4 rad)
DegToRad(deg) == TruncDiv(deg * 17453, 100)

\* sum over k = 0..2 of pow(cur[k] - target[k], 2)
DistSq(cur, target) ==
    (cur[0] - target[0]) * (cur[0] - target[0])
  + (cur[1] - target[1]) * (cur[1] - target[1])
  + (cur[2] - target[2]) * (cur[2] - target[2])

\* sum over k = 3..5 of pow(cur[k] - target[k], 2)
RotSq(cur, target) ==
    (cur[3] - target[3]) * (cur[3] - target[3])
  + (cur[4] - target[4]) * (cur[4] - target[4])
  + (cur[5] - target[5]) * (cur[5] - target[5])

\* variant: the base and restore waits also test the orientation
BaseArrived_withRot(cur, target) ==
    /\ DistSq(cur, target) < POS_TOL * POS_TOL
    /\ RotSq(cur, target) < ROT_TOL * ROT_TOL

\* base / restore waits: std::sqrt(dist_sq) < 0.002
BaseArrived(cur, target) == DistSq(cur, target) < POS_TOL * POS_TOL

\* dither wait: std::sqrt(dist_sq) < 0.002 && std::sqrt(rot_sq) < 0.05
DitherArrived(cur, target) ==
    /\ DistSq(cur, target) < POS_TOL * POS_TOL
    /\ RotSq(cur, target) < ROT_TOL * ROT_TOL

\* variant: a reading with fewer than 6 values is converted as far as it
\* goes and filled up with zeros
ConvertReading_padded(hasCb, p) ==
    IF ~hasCb THEN ZeroPose
    ELSE MkPose(IF Len(p) >= 1 THEN MmToM(p[1]) ELSE 0,
                IF Len(p) >= 2 THEN MmToM(p[2]) ELSE 0,
                IF Len(p) >= 3 THEN MmToM(p[3]) ELSE 0,
                IF Len(p) >= 4 THEN DegToRad(p[4]) ELSE 0,
                IF Len(p) >= 5 THEN DegToRad(p[5]) ELSE 0,
                IF Len(p) >= 6 THEN DegToRad(p[6]) ELSE 0)

\* the lambda get_current_pose_m_rad applied to what the callback returned
\* (hasCb: get_pose_callback is non-empty; p: the returned vector, a
\* sequence of any length, in mm and degrees)
ConvertReading(hasCb, p) ==
    IF ~hasCb THEN ZeroPose
    ELSE IF Len(p) < 6 THEN ZeroPose
    ELSE MkPose(MmToM(p[1]), MmToM(p[2]), MmToM(p[3]),
                DegToRad(p[4]), DegToRad(p[5]), DegToRad(p[6]))

\* ---------------------------------------------------------------------
\* Grid generation (run_calibration)
\* ---------------------------------------------------------------------
steps == <<-GRID_STEP, 0, GRID_STEP>>

\* variant: the two in-plane axes exchanged (dy applied to Z, dz to Y)
GridRow_swapped(center_pose, dz) ==
    [j \in 1..Len(steps) |->
        [center_pose EXCEPT ![2] = center_pose[2] + steps[j],
                            ![1] = center_pose[1] + dz]]

\* inner loop: for (double dy : steps) with dz fixed
GridRow(center_pose, dz) ==
    [j \in 1..Len(steps) |->
        [center_pose EXCEPT ![1] = center_pose[1] + steps[j],
                            ![2] = center_pose[2] + dz]]

\* outer loop: for (double dz : steps)
RECURSIVE GridRows(_, _)
GridRows(center_pose, n) ==
    IF n = 0 THEN << >>
    ELSE GridRows(center_pose, n - 1) \o GridRow(center_pose, steps[n])

GridPoints(center_pose) == GridRows(center_pose, Len(steps))

\* ---------------------------------------------------------------------
\* Pyramid generation (run_3d_calibration)
\* ---------------------------------------------------------------------
Directions == {"Z+", "Z-", "Y+", "Y-", "X+", "X-"}

\* variant: the Y rows tilt about X and about the height axis Y
DirConfig_tiltAboutHeight(direction) ==
    CASE direction = "Z-" ->
           [ax_h |-> 2, ax_w1 |-> 0, ax_w2 |-> 1, ax_r1 |-> 3, ax_r2 |-> 4, h_sign |-> -1]
      [] direction = "Y+" ->
           [ax_h |-> 1, ax_w1 |-> 0, ax_w2 |-> 2, ax_r1 |-> 3, ax_r2 |-> 4, h_sign |-> 1]
      [] direction = "Y-" ->
           [ax_h |-> 1, ax_w1 |-> 0, ax_w2 |-> 2, ax_r1 |-> 3, ax_r2 |-> 4, h_sign |-> -1]
      [] direction = "X+" ->
           [ax_h |-> 0, ax_w1 |-> 1, ax_w2 |-> 2, ax_r1 |-> 4, ax_r2 |-> 5, h_sign |-> 1]
      [] direction = "X-" ->
           [ax_h |-> 0, ax_w1 |-> 1, ax_w2 |-> 2, ax_r1 |-> 4, ax_r2 |-> 5, h_sign |-> -1]
      [] OTHER ->
           [ax_h |-> 2, ax_w1 |-> 0, ax_w2 |-> 1, ax_r1 |-> 3, ax_r2 |-> 4, h_sign |-> 1]

\* the if / else-if chain on `direction`; any other string keeps the
\* defaults, which equal the "Z+" row
DirConfig(direction) ==
    CASE direction = "Z-" ->
           [ax_h |-> 2, ax_w1 |-> 0, ax_w2 |-> 1, ax_r1 |-> 3, ax_r2 |-> 4, h_sign |-> -1]
      [] direction = "Y+" ->
           [ax_h |-> 1, ax_w1 |-> 0, ax_w2 |-> 2, ax_r1 |-> 3, ax_r2 |-> 5, h_sign |-> 1]
      [] direction = "Y-" ->
           [ax_h |-> 1, ax_w1 |-> 0, ax_w2 |-> 2, ax_r1 |-> 3, ax_r2 |-> 5, h_sign |-> -1]
      [] direction = "X+" ->
           [ax_h |-> 0, ax_w1 |-> 1, ax_w2 |-> 2, ax_r1 |-> 4, ax_r2 |-> 5, h_sign |-> 1]
      [] direction = "X-" ->
           [ax_h |-> 0, ax_w1 |-> 1, ax_w2 |-> 2, ax_r1 |-> 4, ax_r2 |-> 5, h_sign |-> -1]
      [] OTHER ->
           [ax_h |-> 2, ax_w1 |-> 0, ax_w2 |-> 1, ax_r1 |-> 3, ax_r2 |-> 4, h_sign |-> 1]

\* variant: the traversal order before the correction of corners 1 and 3
corner_signs_uncorrected ==
    [k \in 0..3 |-> CASE k = 0 -> [c \in 0..1 |-> -1]
                      [] k = 1 -> [c \in 0..1 |-> IF c = 0 THEN 1 ELSE -1]
                      [] k = 2 -> [c \in 0..1 |-> 1]
                      [] OTHER -> [c \in 0..1 |-> IF c = 0 THEN -1 ELSE 1]]

\* double corner_signs[4][2], rows indexed 0..3, columns 0..1
corner_signs ==
    [k \in 0..3 |-> CASE k = 0 -> [c \in 0..1 |-> -1]
                      [] k = 1 -> [c \in 0..1 |-> IF c = 0 THEN -1 ELSE 1]
                      [] k = 2 -> [c \in 0..1 |-> 1]
                      [] OTHER -> [c \in 0..1 |-> IF c = 0 THEN 1 ELSE -1]]

\* height_m * ratio * h_sign, ratio = i / (layers - 1) or 0
LayerZOffset(rc, i) ==
    IF rc.layers > 1
    THEN TruncDiv(MmToM(rc.height) * i, rc.layers - 1) * DirConfig(rc.direction).h_sign
    ELSE 0

\* variant: ratio = i / layers
CurrentWidth_overLayers(rc, i) ==
    IF rc.layers > 1
    THEN MmToM(rc.base_width)
         - TruncDiv((MmToM(rc.base_width) - MmToM(rc.top_width)) * i, rc.layers)
    ELSE MmToM(rc.base_width)

\* base_width_m - (base_width_m - top_width_m) * ratio
CurrentWidth(rc, i) ==
    IF rc.layers > 1
    THEN MmToM(rc.base_width)
         - TruncDiv((MmToM(rc.base_width) - MmToM(rc.top_width)) * i, rc.layers - 1)
    ELSE MmToM(rc.base_width)

HalfW(rc, i) == TruncDiv(CurrentWidth(rc, i), 2)

\* variant: the second width offset lands on the rotation component three
\* places further and the orientation is not written back
CornerTarget_rotated(center_pose, rc, i, k) ==
    LET cfg == DirConfig(rc.direction)
        p1  == [center_pose EXCEPT ![cfg.ax_h] = @ + LayerZOffset(rc, i)]
        p2  == [p1 EXCEPT ![cfg.ax_w1] = @ + corner_signs[k][0] * HalfW(rc, i)]
    IN  [p2 EXCEPT ![cfg.ax_w2 + 3] = @ + corner_signs[k][1] * HalfW(rc, i)]

\* one pass of the body of `for (int k = 0; k < 4; ++k)`; the three
\* += are applied in the order of the source (height, width 1, width 2)
CornerTarget(center_pose, rc, i, k) ==
    LET cfg == DirConfig(rc.direction)
        p1  == [center_pose EXCEPT ![cfg.ax_h] = @ + LayerZOffset(rc, i)]
        p2  == [p1 EXCEPT ![cfg.ax_w1] = @ + corner_signs[k][0] * HalfW(rc, i)]
        p3  == [p2 EXCEPT ![cfg.ax_w2] = @ + corner_signs[k][1] * HalfW(rc, i)]
    IN  [p3 EXCEPT ![3] = center_pose[3], ![4] = center_pose[4], ![5] = center_pose[5]]

LayerTargets(center_pose, rc, i) ==
    [n \in 1..4 |-> CornerTarget(center_pose, rc, i, n - 1)]

\* for (int i = 0; i < layers; ++i): the first n layers
RECURSIVE LayersUpTo(_, _, _)
LayersUpTo(center_pose, rc, n) ==
    IF n <= 0 THEN << >>
    ELSE LayersUpTo(center_pose, rc, n - 1) \o LayerTargets(center_pose, rc, n - 1)

PyramidTargets(center_pose, rc) == LayersUpTo(center_pose, rc, rc.layers)

\* variant: the same tilt on every layer
TiltMagnitude_flat(rc, layer_idx) == DegToRad(rc.tilt_angle)

\* tilt_magnitude = (tilt_angle / 57.29578) * (1.0 - ratio * 0.6)
TiltMagnitude(rc, layer_idx) ==
    IF rc.layers > 1
    THEN TruncDiv(DegToRad(rc.tilt_angle) * (10 * (rc.layers - 1) - 6 * layer_idx),
                  10 * (rc.layers - 1))
    ELSE DegToRad(rc.tilt_angle)

\* (corner_idx == 1 || corner_idx == 3) ? -1.0 : 1.0
SignModifier(corner_idx) == IF corner_idx = 1 \/ corner_idx = 3 THEN -1 ELSE 1

\* index written by p_dither[ax_r2 + 1] += ...
PerturbIndex(rc) == DirConfig(rc.direction).ax_r2 + 1

\* the in-bounds part of the dither pose of target number i (0-based):
\* the two tilt components, the perturbation when its index is inside the
\* array, and the shift of p_dither[2]
DitherPose(target, rc, i) ==
    LET cfg        == DirConfig(rc.direction)
        layer_idx  == i \div 4
        corner_idx == i % 4
        tilt       == TiltMagnitude(rc, layer_idx)
        sign_w1    == corner_signs[corner_idx][0]
        sign_w2    == corner_signs[corner_idx][1]
        q1 == [target EXCEPT ![cfg.ax_r1] = @ + (-sign_w2) * tilt * SignModifier(corner_idx)]
        q2 == [q1 EXCEPT ![cfg.ax_r2] = @ + (-sign_w1) * tilt * SignModifier(corner_idx)]
        q3 == IF PerturbIndex(rc) \in PoseIdx
              THEN [q2 EXCEPT ![PerturbIndex(rc)] =
                        @ + (IF corner_idx % 2 = 0 THEN RZ_PERTURB ELSE -RZ_PERTURB)]
              ELSE q2
    IN  [q3 EXCEPT ![2] = @ + Z_SHIFT]

\* ---------------------------------------------------------------------
\* Rotation helpers (matrixToRotVec, rotVecToMatrix): doubles as
\* fixed-point numbers, 1 unit = 1e-6
\* ---------------------------------------------------------------------
\* one unit of the doubles of the rotation helpers: 1.0
ONE == 1000000
\* theta = 3.141592653589793
PI == 3141593
\* the threshold 1e-6 of the trace tests and of theta < 1e-6
EPS == 1

Abs(a) == IF a >= 0 THEN a ELSE -a
Sgn(a) == IF a >= 0 THEN 1 ELSE -1

\* a * b of two non-negative doubles, rounded to the nearest unit; the
\* product is formed from 3-digit limbs to stay inside 32-bit integers
MulNat(a, b) ==
    LET ah == a \div 1000
        al == a % 1000
        bh == b \div 1000
        bl == b % 1000
    IN  ah * bh + (ah * bl + al * bh + (al * bl + 500000) \div 1000) \div 1000

\* a * b
Mul(a, b) == Sgn(a) * Sgn(b) * MulNat(Abs(a), Abs(b))

\* a / b of two non-negative doubles (b > 0) by long division, two decimal
\* digits at a time, truncated
RECURSIVE DivDigits(_, _, _)
DivDigits(r, b, n) ==
    IF n = 0 THEN 0
    ELSE ((r * 100) \div b) * (IF n = 3 THEN 10000 ELSE IF n = 2 THEN 100 ELSE 1)
         + DivDigits((r * 100) % b, b, n - 1)

DivNat(a, b) == (a \div b) * ONE + DivDigits(a % b, b, 3)

\* a / b
Div(a, b) == Sgn(a) * Sgn(b) * DivNat(Abs(a), Abs(b))

\* std::sqrt(x), x >= 0: Newton iteration from max(x, 1.0), which decreases
\* to the root
RECURSIVE SqrtIter(_, _, _)
SqrtIter(x, y, n) ==
    LET z == (y + DivNat(x, y)) \div 2
    IN  IF n = 0 \/ z >= y THEN y ELSE SqrtIter(x, z, n - 1)

Sqrt(x) == IF x <= 0 THEN 0 ELSE SqrtIter(x, IF x > ONE THEN x ELSE ONE, 40)

\* sum of the series term, -term*t2/((k+1)(k+2)), ... (k = 0: cos, k = 1: sin)
RECURSIVE Series(_, _, _)
Series(term, t2, k) ==
    IF term = 0 \/ k > 40 THEN 0
    ELSE term + Series(-(Mul(term, t2) \div ((k + 1) * (k + 2))), t2, k + 2)

\* std::cos(t), std::sin(t) for |t| up to a little over pi
Cos(t) == Series(ONE, Mul(t, t), 0)
Sin(t) == Series(t, Mul(t, t), 1)

\* std::acos(x): the angle in [0, pi] found by bisection on the
\* decreasing cosine; arguments outside [-1, 1] have no value (NaN)
RECURSIVE AcosIter(_, _, _)
AcosIter(x, lo, hi) ==
    IF hi - lo <= 1 THEN (IF Abs(Cos(lo) - x) <= Abs(Cos(hi) - x) THEN lo ELSE hi)
    ELSE LET mid == (lo + hi) \div 2
         IN  IF Cos(mid) > x THEN AcosIter(x, mid, hi) ELSE AcosIter(x, lo, mid)

Acos(x) == IF x >= ONE THEN 0 ELSE IF x <= -ONE THEN PI ELSE AcosIter(x, 0, PI)

\* struct Vec3 { double x, y, z; }
Vec3(x, y, z) == [x |-> x, y |-> y, z |-> z]

\* Vec3::length
length(v) == Sqrt(Mul(v.x, v.x) + Mul(v.y, v.y) + Mul(v.z, v.z))

\* Vec3::normalize: if (l < 1e-9) return {0, 0, 1};
normalize(v) ==
    LET l == length(v)
    IN  IF l * 1000 < 1 THEN Vec3(0, 0, ONE)
        ELSE Vec3(Div(v.x, l), Div(v.y, l), Div(v.z, l))

\* std::vector<double> matrixToRotVec(const Vec3 &X, const Vec3 &Y, const Vec3 &Z)
matrixToRotVec(X, Y, Z) ==
    LET r11 == X.x
        r12 == Y.x
        r13 == Z.x
        r21 == X.y
        r22 == Y.y
        r23 == Z.y
        r31 == X.z
        r32 == Y.z
        r33 == Z.z
        trace == r11 + r22 + r33
    IN  IF trace >= 3 * ONE - EPS THEN <<0, 0, 0>>
        ELSE
          LET singular == trace <= -ONE + EPS
              theta == IF singular THEN PI ELSE Acos(TruncDiv(trace - ONE, 2))
              d1 == Sqrt(TruncDiv(r11 + ONE, 2))
              d2 == Sqrt(TruncDiv(r22 + ONE, 2))
              d3 == Sqrt(TruncDiv(r33 + ONE, 2))
              s == 2 * Sin(theta)
              axis ==
                  IF singular
                  THEN IF r11 > r22 /\ r11 > r33
                       THEN Vec3(d1, Div(r12 + r21, 2 * d1), Div(r13 + r31, 2 * d1))
                       ELSE IF r22 > r33
                       THEN Vec3(Div(r12 + r21, 2 * d2), d2, Div(r23 + r32, 2 * d2))
                       ELSE Vec3(Div(r13 + r31, 2 * d3), Div(r23 + r32, 2 * d3), d3)
                  ELSE Vec3(Div(r32 - r23, s), Div(r13 - r31, s), Div(r21 - r12, s))
              n == normalize(axis)
          IN  <<Mul(n.x, theta), Mul(n.y, theta), Mul(n.z, theta)>>

\* variant: the outputs are left untouched (zero) for a zero rotation
IdentityBasis_unset == [X |-> Vec3(0, 0, 0), Y |-> Vec3(0, 0, 0), Z |-> Vec3(0, 0, 0)]

\* X = {1, 0, 0}; Y = {0, 1, 0}; Z = {0, 0, 1};
IdentityBasis == [X |-> Vec3(ONE, 0, 0), Y |-> Vec3(0, ONE, 0), Z |-> Vec3(0, 0, ONE)]

\* void rotVecToMatrix(double rx, double ry, double rz, Vec3 &X, Vec3 &Y, Vec3 &Z):
\* the values X, Y, Z hold after the call
rotVecToMatrix(rx, ry, rz) ==
    LET theta == Sqrt(Mul(rx, rx) + Mul(ry, ry) + Mul(rz, rz))
    IN  IF theta < EPS THEN IdentityBasis
        ELSE
          LET kx == Div(rx, theta)
              ky == Div(ry, theta)
              kz == Div(rz, theta)
              c == Cos(theta)
              s == Sin(theta)
              v == ONE - c
          IN  [X |-> Vec3(Mul(Mul(kx, kx), v) + c, Mul(Mul(kx, ky), v) - Mul(kz, s),
                          Mul(Mul(kx, kz), v) + Mul(ky, s)),
               Y |-> Vec3(Mul(Mul(kx, ky), v) + Mul(kz, s), Mul(Mul(ky, ky), v) + c,
                          Mul(Mul(ky, kz), v) - Mul(kx, s)),
               Z |-> Vec3(Mul(Mul(kx, kz), v) - Mul(ky, s), Mul(Mul(ky, kz), v) + Mul(kx, s),
                          Mul(Mul(kz, kz), v) + c)]

\* ---------------------------------------------------------------------
\* State
\* ---------------------------------------------------------------------
VARIABLES
    dashboard,       \* std::unique_ptr<DashboardClient>: "null" or "obj"
    primary,         \* std::unique_ptr<PrimaryPortInterface>: "null" or "obj"
    db_connected,    \* the dashboard link is up
    pri_connected,   \* the primary-port link is up
    pc,              \* position of the run
    mode,            \* "none", "grid" (run_calibration), "pyramid" (run_3d_calibration)
    cb,              \* which of the three std::function arguments are non-empty
    rc,              \* arguments of run_3d_calibration
    center_pose,     \* vector6d_t center_pose
    points,          \* `points` of run_calibration / `targets` of run_3d_calibration
    i,               \* loop index of the execution loop (0-based)
    timeout,         \* int timeout of the current wait loop
    p_dither,        \* vector6d_t p_dither of the current point
    data_lines,      \* std::vector<std::string> data_lines, as <<point_idx, pose>>
    outfile,         \* the data file: status "untouched" / "written" / "failed", lines
    run_result,      \* what the caller of the run gets back
    logged,          \* messages accepted by the log sink
    events,          \* history: external effects of the run, in order
    polls,           \* history: pose-provider calls made by the current wait
    hits,            \* history: polls of the current wait that were within tolerance
    first_hit,       \* history: number of the first such poll, 0 if none so far
    timed_out_at,    \* history: point_idx whose base wait ended with timeout = 0
    deviations,      \* history: deviations of the environment used so far
    capture_raised,  \* history: point indices at which the capture callback raised
    ub_oob,          \* history: an element outside p_dither was written
    gil_held,        \* the thread that called into the extension holds the Python GIL
    rot_given,       \* rotation helpers: the argument the caller started from
    basis,           \* rotation helpers: Vec3 X, Y, Z (arguments / outputs)
    rot_vec,         \* rotation helpers: the rotation vector (argument / result)
    rot_calls,       \* rotation helpers: the calls made so far, in order
    cur_pose,        \* break test of a wait on its own: vector6d_t cur
    arrived,         \* break test of a wait on its own: "untested", "break", "continue"
    impl,            \* EliteRobotController: which of the two implementations is built
    rtsi,            \* std::unique_ptr<RtsiIOInterface>: "null" or "obj"
    rtsi_connected,  \* the RTSI link is up
    is_connected,    \* EliteRobotController::is_connected
    global_speed,    \* EliteRobotController::global_speed (units of 1e-4)
    want_connected,  \* history: the last connect() returned true, no disconnect() since
    last_call,       \* history: the last call made: arguments, result, script submitted
    handle,          \* the EliteDriverHandle the caller holds: "null" or "ctx"
    pose_buf         \* the caller's double[6], as the 6 values in it

link  == <<dashboard, primary, db_connected, pri_connected>>
input == <<mode, cb, rc>>
geom  == <<center_pose, points>>
loopv == <<i, timeout, p_dither, polls, hits, first_hit>>
out   == <<data_lines, outfile, run_result, gil_held>>
hist  == <<logged, events, deviations, capture_raised, ub_oob>>
probe == <<cur_pose, arrived>>
ctl   == <<impl, rtsi, rtsi_connected, is_connected, global_speed, want_connected,
           last_call, handle, pose_buf>>
calc  == <<rot_given, basis, rot_vec, rot_calls, probe, ctl>>
vars  == <<link, pc, input, geom, loopv, out, hist, timed_out_at, calc>>

\* ---------------------------------------------------------------------
\* Environment: arguments of a run and behaviour of the collaborators
\* ---------------------------------------------------------------------
\* combinations of present / absent callbacks passed to a run
CallbackSets ==
    { [log |-> TRUE,  capture |-> TRUE,  pose |-> TRUE],
      [log |-> FALSE, capture |-> FALSE, pose |-> FALSE] }

\* argument tuples of run_3d_calibration (mm, degrees)
RunRecipes ==
    { [layers |-> 1, base_width |-> 100, top_width |-> 50, height |-> 50,
       tilt_angle |-> 10, direction |-> "Z+"],
      [layers |-> 1, base_width |-> 60, top_width |-> 20, height |-> 30,
       tilt_angle |-> 5, direction |-> "Y-"] }

\* a pyramid 2 mm wide: run without a pose provider, its corners lie within
\* the position tolerance of the all-zero pose the run then starts from
TinyRecipe ==
    [layers |-> 1, base_width |-> 2, top_width |-> 2, height |-> 1,
     tilt_angle |-> 10, direction |-> "Z+"]

\* the recipes a run is started with, by the callbacks it is given
RecipesFor(c) == IF c.pose THEN RunRecipes ELSE RunRecipes \cup {TinyRecipe}

NoRecipe == [layers |-> 0, base_width |-> 0, top_width |-> 0, height |-> 0,
             tilt_angle |-> 0, direction |-> "Z+"]

\* readings (mm, degrees) the pose provider gives for the start pose
CenterReadings == { <<300, -200, 400, 180, 0, -90>> }

RoundDiv(a, b) == IF a >= 0 THEN (2 * a + b) \div (2 * b) ELSE -((2 * (-a) + b) \div (2 * b))

\* the reading (mm, degrees) of a robot standing at internal pose p
ReadingAt(p) ==
    << RoundDiv(p[0], 10), RoundDiv(p[1], 10), RoundDiv(p[2], 10),
       RoundDiv(p[3] * 100, 17453), RoundDiv(p[4] * 100, 17453),
       RoundDiv(p[5] * 100, 17453) >>

\* reading r with d added to its component k (1..6)
Shifted(r, k, d) == [r EXCEPT ![k] = @ + d]

\* readings a poll may get while the robot is sent to `target`:
\* at the target, 1 mm off, 2 mm off (exactly the tolerance), 3 degrees
\* off, still at the center, and a reading with fewer than 6 values
PollReadings(target) ==
    { ReadingAt(target),
      Shifted(ReadingAt(target), 1, 1),
      Shifted(ReadingAt(target), 1, 2),
      Shifted(ReadingAt(target), 4, 3),
      ReadingAt(center_pose),
      <<5, 5, 5>> }

\* readings a record sample may get: the nominal one (the robot settled
\* 1 mm beside the pose it was sent to) and the deviating one (a reading
\* with fewer than 6 values)
NominalSample(target) == Shifted(ReadingAt(target), 1, 1)
DeviatingSamples(target) == { <<5, 5, 5>> }

CanDeviate == deviations < MaxDeviations

\* outcome of log(msg): the std::cout branch cannot raise, the callback can
LogOutcomes == IF cb.log THEN {"ok", "raise"} ELSE {"ok"}

\* outcome of a call of get_current_pose_m_rad
PoseOutcomes == IF cb.pose THEN {"ok", "raise"} ELSE {"ok"}

\* what a caller gets from a run: the functions return void, so no way of
\* ending a run hands records back
NoResult(how) == [how |-> how, records |-> << >>]

Ev(e, kind, pt, pose) == [e |-> e, kind |-> kind, pt |-> pt, pose |-> pose, ms |-> 0]

\* no call of a rotation helper has been made
\* no break test is examined on its own
NoProbe == cur_pose = ZeroPose /\ arrived = "untested"

\* a script handed to sendScript: none
NoScript == [kind |-> "none", args |-> << >>, v |-> 0]

\* no call has been made
NoCall == [op |-> "none", args |-> << >>, ret |-> FALSE, script |-> NoScript,
           scaling |-> << >>, read |-> << >>]

\* bool is_connected = false; double global_speed = 0.5;
DefaultSpeed == 5000

\* no EliteRobotController is constructed and no wrapper handle is held
NoCtl ==
    /\ impl = "elite_ext"
    /\ rtsi = "null" /\ rtsi_connected = FALSE
    /\ is_connected = FALSE /\ global_speed = DefaultSpeed
    /\ want_connected = FALSE
    /\ last_call = NoCall
    /\ handle = "null" /\ pose_buf = <<0, 0, 0, 0, 0, 0>>

NoCalc ==
    /\ rot_given = [kind |-> "none", k |-> <<0, 0, 0>>, r |-> <<0, 0, 0>>, m |-> IdentityBasis]
    /\ basis = IdentityBasis
    /\ rot_vec = <<0, 0, 0>>
    /\ rot_calls = << >>
    /\ NoProbe
    /\ NoCtl

\* ---------------------------------------------------------------------
\* Initial state: a freshly constructed EliteCalibration, no run started
\* ---------------------------------------------------------------------
Init ==
    /\ dashboard = "null" /\ primary = "null"
    /\ db_connected = FALSE /\ pri_connected = FALSE
    /\ pc = "idle" /\ mode = "none"
    /\ cb = [log |-> TRUE, capture |-> TRUE, pose |-> TRUE]
    /\ rc = NoRecipe
    /\ center_pose = ZeroPose /\ points = << >>
    /\ i = 0 /\ timeout = 0 /\ p_dither = ZeroPose /\ polls = 0 /\ hits = 0
    /\ first_hit = 0 /\ timed_out_at = 0
    /\ data_lines = << >> /\ outfile = [status |-> "untouched", lines |-> << >>]
    /\ run_result = NoResult("none") /\ gil_held = TRUE
    /\ NoCalc
    /\ logged = {} /\ events = << >> /\ deviations = 0
    /\ capture_raised = {} /\ ub_oob = FALSE

\* ---------------------------------------------------------------------
\* connect / disconnect
\* ---------------------------------------------------------------------
\* EliteCalibration::connect: both objects are created, then connected;
\* the results of the two connect calls are the environment's
Connect ==
    /\ pc = "idle"
    /\ \E db_ok \in BOOLEAN, pri_ok \in BOOLEAN :
          /\ dashboard' = "obj" /\ primary' = "obj"
          /\ db_connected' = db_ok /\ pri_connected' = pri_ok
    /\ UNCHANGED <<calc, pc, input, geom, loopv, out, hist, timed_out_at>>

\* EliteCalibration::disconnect
Disconnect ==
    /\ pc = "idle"
    /\ dashboard # "null" \/ primary # "null"
    /\ pri_connected' = (IF primary # "null" THEN FALSE ELSE pri_connected)
    /\ db_connected' = (IF dashboard # "null" THEN FALSE ELSE db_connected)
    /\ UNCHANGED <<calc, dashboard, primary, pc, input, geom, loopv, out, hist, timed_out_at>>

\* ---------------------------------------------------------------------
\* The run: shared skeleton of run_calibration and run_3d_calibration
\* ---------------------------------------------------------------------
\* variant: the points are numbered as the loop counts them, from 0
point_idx_fromZero == i

\* int point_idx = i + 1;
point_idx == i + 1

\* an exception leaves the run: nothing after the raising call is executed
Raise ==
    /\ pc' = "thrown"
    /\ run_result' = NoResult("exception")
    /\ gil_held' = TRUE

\* log(msg) followed by a jump to `next`
LogThen(tag, next) ==
    \E r \in LogOutcomes :
        IF r = "ok"
        THEN /\ logged' = logged \cup {tag}
             /\ pc' = next
             /\ run_result' = (IF next = "returned" THEN NoResult("void") ELSE run_result)
             /\ gil_held' = (IF next = "returned" THEN TRUE ELSE gil_held)
        ELSE /\ logged' = logged
             /\ Raise

\* variant: the two run methods bound without a call guard
call_guard_absent == "none"

\* py::call_guard<py::gil_scoped_release>() in the bindings of
\* run_calibration and run_3d_calibration
call_guard == "gil_scoped_release"

\* a call of run_calibration or run_3d_calibration with some arguments; the
\* call guard of the binding is constructed before the method is entered
\* and destroyed when it is left, by return or by exception
StartRun ==
    /\ pc = "idle"
    /\ \E m \in {"grid", "pyramid"}, c \in CallbackSets :
          /\ mode' = m
          /\ cb' = c
          /\ rc' \in (IF m = "pyramid" THEN RecipesFor(c) ELSE {NoRecipe})
    /\ pc' = "check"
    /\ gil_held' = (call_guard # "gil_scoped_release")
    /\ UNCHANGED <<calc, link, geom, loopv, data_lines, outfile, run_result, hist, timed_out_at>>

\* if (!dashboard || !primary) { log("Error: Not connected ..."); return; }
CheckNull ==
    /\ pc = "check"
    /\ IF dashboard = "null" \/ primary = "null"
       THEN LogThen("not_connected", "returned")
       ELSE /\ pc' = "power_on"
            /\ UNCHANGED <<logged, run_result, gil_held>>
    /\ UNCHANGED <<calc, link, input, timed_out_at, geom, loopv, data_lines, outfile,
                   events, deviations, capture_raised, ub_oob>>

\* result of a dashboard request: a dashboard that is not connected
\* cannot confirm the request, a connected one may confirm or refuse
DashboardReplies == IF db_connected THEN {TRUE, FALSE} ELSE {FALSE}

\* if (!dashboard->powerOn()) { log("Failed to power on"); return; }
PowerOn ==
    /\ pc = "power_on"
    /\ \E ok \in DashboardReplies :
          IF ok
          THEN /\ pc' = "brake_release"
               /\ UNCHANGED <<logged, run_result, gil_held>>
          ELSE LogThen("power_on_failed", "returned")
    /\ UNCHANGED <<calc, link, input, timed_out_at, geom, loopv, data_lines, outfile,
                   events, deviations, capture_raised, ub_oob>>

\* if (!dashboard->brakeRelease()) { log("Failed to release brake"); return; }
BrakeRelease ==
    /\ pc = "brake_release"
    /\ \E ok \in DashboardReplies :
          IF ok
          THEN /\ pc' = "log_start"
               /\ UNCHANGED <<logged, run_result, gil_held>>
          ELSE LogThen("brake_failed", "returned")
    /\ UNCHANGED <<calc, link, input, timed_out_at, geom, loopv, data_lines, outfile,
                   events, deviations, capture_raised, ub_oob>>

\* log("[C++] Starting ...")
LogStart ==
    /\ pc = "log_start"
    /\ LogThen("start", "log_info")
    /\ UNCHANGED <<calc, link, input, timed_out_at, geom, loopv, data_lines, outfile,
                   events, deviations, capture_raised, ub_oob>>

\* the second log call before the center pose is read
LogInfo ==
    /\ pc = "log_info"
    /\ LogThen("info", "get_center")
    /\ UNCHANGED <<calc, link, input, timed_out_at, geom, loopv, data_lines, outfile,
                   events, deviations, capture_raised, ub_oob>>

\* vector6d_t center_pose = get_current_pose_m_rad(); followed by the
\* generation loops that fill `points` / `targets`
GetCenter ==
    /\ pc = "get_center"
    /\ \E o \in PoseOutcomes :
          IF o = "raise"
          THEN /\ Raise
               /\ UNCHANGED <<geom, i>>
          ELSE \E r \in CenterReadings :
                  LET c == ConvertReading(cb.pose, r) IN
                  /\ center_pose' = c
                  /\ points' = (IF mode = "grid" THEN GridPoints(c)
                                ELSE PyramidTargets(c, rc))
                  /\ i' = 0
                  /\ pc' = "loop"
                  /\ run_result' = run_result /\ gil_held' = gil_held
    /\ UNCHANGED <<calc, link, input, timed_out_at, timeout, p_dither, polls, hits, first_hit,
                   data_lines, outfile, hist>>

\* loop condition true: log("Moving to Point ...") / log("Processing Point ...")
LogMoving ==
    /\ pc = "loop"
    /\ i < Len(points)
    /\ LogThen("moving", "send_base")
    /\ UNCHANGED <<calc, link, input, timed_out_at, geom, loopv, data_lines, outfile,
                   events, deviations, capture_raised, ub_oob>>

\* loop condition false: fall through to the save block
LoopExit ==
    /\ pc = "loop"
    /\ ~(i < Len(points))
    /\ pc' = "open_file"
    /\ UNCHANGED <<calc, link, input, timed_out_at, geom, loopv, out, hist>>

\* what primary->sendScript(...) returns (a bool, as in move_line, line
\* 258); the runs call it as a statement and drop the value
SendScriptResults == BOOLEAN

\* primary->sendScript(script): one motion command handed to the primary
\* port, whatever the call returns
SendScript(kind, pt, pose) ==
    \E accepted \in SendScriptResults :
        events' = Append(events, Ev("cmd", kind, pt, pose))

\* variant: the pyramid base wait gets the attempts of the grid
BaseBudget_gridOnly == GRID_TIMEOUT

\* int timeout = 100 (run_calibration) / int timeout = 200
\* (run_3d_calibration) in front of the base wait
BaseBudget == IF mode = "grid" THEN GRID_TIMEOUT ELSE BASE_TIMEOUT

\* primary->sendScript(script); int timeout = N;
SendBase ==
    /\ pc = "send_base"
    /\ SendScript("base", point_idx, points[i + 1])
    /\ timeout' = BaseBudget
    /\ polls' = 0 /\ hits' = 0 /\ first_hit' = 0
    /\ pc' = "wait_base"
    /\ UNCHANGED <<calc, link, input, timed_out_at, geom, i, p_dither, out,
                   logged, deviations, capture_raised, ub_oob>>

\* ---------------------------------------------------------------------
\* The wait loops
\* ---------------------------------------------------------------------
WaitPcs == {"wait_base", "wait_dither", "wait_restore"}

\* the pose the current wait compares the readings with
WaitTarget == IF pc = "wait_dither" THEN p_dither ELSE points[i + 1]

\* the break condition of the current wait
Arrived(cur) ==
    IF pc = "wait_dither" THEN DitherArrived(cur, WaitTarget)
    ELSE BaseArrived(cur, WaitTarget)

\* variant: the grid continues with the settle sleep whatever the wait gave
AfterWait_unchecked ==
    CASE pc = "wait_base" -> (IF mode = "grid" THEN "settle" ELSE "tilt")
      [] pc = "wait_dither" -> "settle"
      [] OTHER -> "next_point"

\* variant: the pyramid handles the end of its base wait as the grid does
AfterWait_pyramidAborts ==
    CASE pc = "wait_base" -> "after_wait"
      [] pc = "wait_dither" -> "settle"
      [] OTHER -> "next_point"

\* where control goes when the current wait loop is left
AfterWait ==
    CASE pc = "wait_base" -> (IF mode = "grid" THEN "after_wait" ELSE "tilt")
      [] pc = "wait_dither" -> "settle"
      [] OTHER -> "next_point"

WaitKind ==
    CASE pc = "wait_base" -> "base"
      [] pc = "wait_dither" -> "dither"
      [] OTHER -> "restore"

\* variant: the attempt counter is never decreased
Decrement_skipped(t) == t

\* timeout--;
Decrement(t) == t - 1

\* off-by-one variant of the loop test: one more pass at timeout = 0
LoopGoesOn_offByOne(t) == t >= 0

\* the loop test `while (timeout > 0)` evaluated after `timeout--`
LoopGoesOn(t) == t > 0

\* history only: is the reading within the tolerance of the current wait
\* (translation distance below 0.002 m; for the dither wait also rotation
\* distance below 0.05 rad)
WithinTolerance(cur) ==
    /\ DistSq(cur, WaitTarget) < POS_TOL * POS_TOL
    /\ pc = "wait_dither" => RotSq(cur, WaitTarget) < ROT_TOL * ROT_TOL

\* one pass of `while (timeout > 0) { cur = get_current_pose_m_rad(); ...
\* if (arrived) break; sleep(100 ms); timeout--; }`
Poll ==
    /\ pc \in WaitPcs
    /\ timeout > 0
    /\ \E o \in PoseOutcomes :
          IF o = "raise"
          THEN /\ Raise
               /\ UNCHANGED <<timeout, polls, hits, first_hit, events, timed_out_at>>
          ELSE \E r \in PollReadings(WaitTarget) :
                  LET cur == ConvertReading(cb.pose, r) IN
                  /\ polls' = polls + 1
                  /\ hits' = (IF WithinTolerance(cur) THEN hits + 1 ELSE hits)
                  /\ first_hit' = (IF WithinTolerance(cur) /\ first_hit = 0
                                   THEN polls + 1 ELSE first_hit)
                  /\ run_result' = run_result /\ gil_held' = gil_held
                  /\ IF Arrived(cur)
                     THEN /\ timeout' = timeout
                          /\ pc' = AfterWait
                          /\ events' = Append(events, Ev("wait", WaitKind, point_idx, WaitTarget))
                          /\ timed_out_at' = timed_out_at
                     ELSE /\ timeout' = Decrement(timeout)
                          /\ IF LoopGoesOn(Decrement(timeout))
                             THEN /\ pc' = pc
                                  /\ events' = events
                                  /\ timed_out_at' = timed_out_at
                             ELSE /\ pc' = AfterWait
                                  /\ events' = Append(events, Ev("wait", WaitKind, point_idx, WaitTarget))
                                  /\ timed_out_at' = (IF pc = "wait_base" THEN point_idx
                                                      ELSE timed_out_at)
    /\ UNCHANGED <<calc, link, input, geom, i, p_dither, data_lines, outfile,
                   logged, deviations, capture_raised, ub_oob>>

\* variant: the timeout leaves the function instead of the loop
AbortTarget_return == "returned"

\* variant: the timeout submits the command of the same point again
AbortTarget_resend == "send_base"

\* `break`: control leaves the loop and reaches the save block
AbortTarget == "open_file"

\* grid only: if (timeout <= 0) { log("Timeout waiting ..."); break; }
TimeoutAbort ==
    /\ pc = "after_wait"
    /\ timeout <= 0
    /\ LogThen("timeout", AbortTarget)
    /\ timeout' = 0 /\ polls' = 0 /\ hits' = 0 /\ first_hit' = 0
    /\ UNCHANGED <<calc, link, input, timed_out_at, geom, i, p_dither, data_lines, outfile,
                   events, deviations, capture_raised, ub_oob>>

\* Once the code has read `timeout` for the last time before its next
\* assignment, the model sets it (and the history of the wait) to 0.

\* grid only: the wait converged, control reaches the settle sleep
Converged ==
    /\ pc = "after_wait"
    /\ ~(timeout <= 0)
    /\ pc' = "settle"
    /\ timeout' = 0 /\ polls' = 0 /\ hits' = 0 /\ first_hit' = 0
    /\ UNCHANGED <<calc, link, input, timed_out_at, geom, i, p_dither, out, hist>>

\* std::this_thread::sleep_for(500 ms / 1500 ms) before the sample
Settle ==
    /\ pc = "settle"
    /\ events' = Append(events,
                     [Ev("settle", "", point_idx, ZeroPose) EXCEPT
                         !.ms = IF mode = "grid" THEN GRID_SETTLE_MS
                                ELSE PYRAMID_SETTLE_MS])
    /\ pc' = "sample"
    /\ timeout' = 0 /\ polls' = 0 /\ hits' = 0 /\ first_hit' = 0
    /\ UNCHANGED <<calc, link, input, timed_out_at, geom, i, p_dither, out,
                   logged, deviations, capture_raised, ub_oob>>

\* the pose the robot was last sent to before the sample
SampleTarget == IF mode = "grid" THEN points[i + 1] ELSE p_dither

\* auto current_pose = get_current_pose_m_rad(); ...
\* data_lines.push_back(data_ss.str());
Sample ==
    /\ pc = "sample"
    /\ \E o \in PoseOutcomes :
          IF o = "raise"
          THEN /\ Raise
               /\ UNCHANGED <<data_lines, events, deviations>>
          ELSE \E dev \in BOOLEAN :
               \E r \in (IF dev THEN DeviatingSamples(SampleTarget)
                         ELSE {NominalSample(SampleTarget)}) :
                  LET current_pose == ConvertReading(cb.pose, r) IN
                  /\ dev => CanDeviate
                  /\ deviations' = (IF dev THEN deviations + 1 ELSE deviations)
                  /\ data_lines' = Append(data_lines, <<point_idx, current_pose>>)
                  /\ events' = events \o << Ev("sample", "", point_idx, current_pose),
                                            Ev("record", "", point_idx, current_pose) >>
                  /\ pc' = "log_data"
                  /\ run_result' = run_result /\ gil_held' = gil_held
    /\ UNCHANGED <<calc, link, input, timed_out_at, geom, loopv, outfile,
                   logged, capture_raised, ub_oob>>

\* log("Point N Data: ...")
LogData ==
    /\ pc = "log_data"
    /\ LogThen("data", "log_trigger")
    /\ UNCHANGED <<calc, link, input, timed_out_at, geom, loopv, data_lines, outfile,
                   events, deviations, capture_raised, ub_oob>>

\* log("Triggering Camera Capture (Callback)...") / log("Triggering Capture...")
LogTrigger ==
    /\ pc = "log_trigger"
    /\ LogThen("trigger", "capture")
    /\ UNCHANGED <<calc, link, input, timed_out_at, geom, loopv, data_lines, outfile,
                   events, deviations, capture_raised, ub_oob>>

\* variant: the pyramid goes to the next point right after the capture
AfterCapture_noRestore == IF mode = "grid" THEN "log_done" ELSE "next_point"

\* where control goes after the capture block
AfterCapture == IF mode = "grid" THEN "log_done" ELSE "log_restoring"

\* variant: no handler around the capture call
CaptureHandler_uncaught == "thrown"

\* where control goes when capture_callback raises a std::exception
CaptureHandler == "catch_log"

\* if (capture_callback) { try { capture_callback(point_idx); } catch ... }
Capture ==
    /\ pc = "capture"
    /\ IF ~cb.capture
       THEN /\ pc' = AfterCapture
            /\ UNCHANGED <<events, deviations, capture_raised>>
       ELSE /\ events' = Append(events, Ev("capture", "", point_idx, ZeroPose))
            /\ \E raises \in BOOLEAN :
                  /\ raises => CanDeviate
                  /\ deviations' = (IF raises THEN deviations + 1 ELSE deviations)
                  /\ capture_raised' = (IF raises THEN capture_raised \cup {point_idx}
                                        ELSE capture_raised)
                  /\ pc' = (IF raises THEN CaptureHandler ELSE AfterCapture)
    /\ UNCHANGED <<calc, link, input, timed_out_at, geom, loopv, out, logged, ub_oob>>

\* catch (const std::exception &e) { log("Capture callback error: ..."); }
CatchLog ==
    /\ pc = "catch_log"
    /\ LogThen("capture_error", AfterCapture)
    /\ UNCHANGED <<calc, link, input, timed_out_at, geom, loopv, data_lines, outfile,
                   events, deviations, capture_raised, ub_oob>>

\* grid only: log("Capture Done."), end of the loop body
LogDone ==
    /\ pc = "log_done"
    /\ LogThen("done", "next_point")
    /\ UNCHANGED <<calc, link, input, timed_out_at, geom, loopv, data_lines, outfile,
                   events, deviations, capture_raised, ub_oob>>

\* ++i
NextPoint ==
    /\ pc = "next_point"
    /\ i' = i + 1
    /\ pc' = "loop"
    /\ timeout' = 0 /\ polls' = 0 /\ hits' = 0 /\ first_hit' = 0
    /\ timed_out_at' = 0
    /\ UNCHANGED <<calc, link, input, geom, p_dither, out, hist>>

\* ---------------------------------------------------------------------
\* Pyramid only: inward tilt, dither move, restore move
\* ---------------------------------------------------------------------
\* outcomes of the write p_dither[ax_r2 + 1] += ... when the index is 6:
\* the element lies outside the 6-element array; the build may let the
\* write land in an unused stack slot or may end the process
OobOutcomes == {"benign", "crash"}

\* "2. Apply Inward Tilt": vector6d_t p_dither = targets[i]; ... the four
\* += on p_dither.  The base wait's `timeout` is not examined.
Tilt ==
    /\ pc = "tilt"
    /\ p_dither' = DitherPose(points[i + 1], rc, i)
    /\ IF PerturbIndex(rc) \in PoseIdx
       THEN /\ pc' = "log_adjust"
            /\ UNCHANGED <<ub_oob, run_result, gil_held>>
       ELSE /\ ub_oob' = TRUE
            /\ \E u \in OobOutcomes :
                  IF u = "benign"
                  THEN pc' = "log_adjust" /\ UNCHANGED <<run_result, gil_held>>
                  ELSE /\ pc' = "crashed" /\ run_result' = NoResult("crash")
                       /\ gil_held' = gil_held
    /\ timeout' = 0 /\ polls' = 0 /\ hits' = 0 /\ first_hit' = 0
    /\ UNCHANGED <<calc, link, input, timed_out_at, geom, i, data_lines, outfile,
                   logged, events, deviations, capture_raised>>

\* log(" - Adjusting Orientation...")
LogAdjust ==
    /\ pc = "log_adjust"
    /\ LogThen("adjust", "send_dither")
    /\ UNCHANGED <<calc, link, input, timed_out_at, geom, loopv, data_lines, outfile,
                   events, deviations, capture_raised, ub_oob>>

\* primary->sendScript(script_dither); timeout = 50;
SendDither ==
    /\ pc = "send_dither"
    /\ SendScript("dither", point_idx, p_dither)
    /\ timeout' = DITHER_TIMEOUT
    /\ polls' = 0 /\ hits' = 0 /\ first_hit' = 0
    /\ pc' = "wait_dither"
    /\ UNCHANGED <<calc, link, input, timed_out_at, geom, i, p_dither, out,
                   logged, deviations, capture_raised, ub_oob>>

\* log(" - Restoring...")
LogRestoring ==
    /\ pc = "log_restoring"
    /\ LogThen("restoring", "send_restore")
    /\ UNCHANGED <<calc, link, input, timed_out_at, geom, loopv, data_lines, outfile,
                   events, deviations, capture_raised, ub_oob>>

\* variant: the restore command repeats the dither pose
RestorePose_dither == p_dither

\* the pose of the script re-sent by "4. Restore to Base"
RestorePose == points[i + 1]

\* primary->sendScript(script); timeout = 50;   (re-uses the base script)
SendRestore ==
    /\ pc = "send_restore"
    /\ SendScript("restore", point_idx, RestorePose)
    /\ timeout' = RESTORE_TIMEOUT
    /\ polls' = 0 /\ hits' = 0 /\ first_hit' = 0
    /\ pc' = "wait_restore"
    /\ UNCHANGED <<calc, link, input, timed_out_at, geom, i, p_dither, out,
                   logged, deviations, capture_raised, ub_oob>>

\* ---------------------------------------------------------------------
\* Save block and return to center
\* ---------------------------------------------------------------------
\* std::ofstream outfile(filename); if (outfile.is_open()) { header; lines;
\* close } -- whether the file opens is the environment's
OpenFile ==
    /\ pc = "open_file"
    /\ \E is_open \in BOOLEAN :
          IF is_open
          THEN /\ outfile' = [status |-> "written", lines |-> data_lines]
               /\ events' = Append(events, Ev("file", "written", 0, ZeroPose))
               /\ pc' = "log_saved"
          ELSE /\ outfile' = [status |-> "failed", lines |-> << >>]
               /\ events' = Append(events, Ev("file", "failed", 0, ZeroPose))
               /\ pc' = "log_open_failed"
    /\ UNCHANGED <<calc, link, input, timed_out_at, geom, loopv, data_lines, run_result, gil_held,
                   logged, deviations, capture_raised, ub_oob>>

\* log("Calibration data saved to: ...")
LogSaved ==
    /\ pc = "log_saved"
    /\ LogThen("saved", "log_finished")
    /\ UNCHANGED <<calc, link, input, timed_out_at, geom, loopv, data_lines, outfile,
                   events, deviations, capture_raised, ub_oob>>

\* log("Failed to open file for writing: ...")
LogOpenFailed ==
    /\ pc = "log_open_failed"
    /\ LogThen("open_failed", "log_finished")
    /\ UNCHANGED <<calc, link, input, timed_out_at, geom, loopv, data_lines, outfile,
                   events, deviations, capture_raised, ub_oob>>

\* log("Calibration finished. Returning to center...")
LogFinished ==
    /\ pc = "log_finished"
    /\ LogThen("finished", "send_home")
    /\ UNCHANGED <<calc, link, input, timed_out_at, geom, loopv, data_lines, outfile,
                   events, deviations, capture_raised, ub_oob>>

\* variant: the final command targets the last visited point
HomePose_lastPoint == IF points = << >> THEN center_pose ELSE points[Len(points)]

\* the pose of script_home
HomePose == center_pose

\* variant: the run waits for the arrival at the center
HomeNext_waits == "wait_restore"

\* after the final sendScript the function ends; nothing is waited for
HomeNext == "returned"

\* primary->sendScript(script_home); end of the function (void)
SendHome ==
    /\ pc = "send_home"
    /\ SendScript("home", 0, HomePose)
    /\ pc' = HomeNext
    /\ run_result' = NoResult("void")
    /\ gil_held' = TRUE
    /\ UNCHANGED <<calc, link, input, timed_out_at, geom, loopv, data_lines, outfile,
                   logged, deviations, capture_raised, ub_oob>>

\* ---------------------------------------------------------------------
\* Specification
\* ---------------------------------------------------------------------
Next ==
    \/ Connect \/ Disconnect \/ StartRun
    \/ CheckNull \/ PowerOn \/ BrakeRelease \/ LogStart \/ LogInfo \/ GetCenter
    \/ LogMoving \/ LoopExit \/ SendBase \/ Poll
    \/ TimeoutAbort \/ Converged \/ Settle \/ Sample
    \/ LogData \/ LogTrigger \/ Capture \/ CatchLog \/ LogDone \/ NextPoint
    \/ Tilt \/ LogAdjust \/ SendDither \/ LogRestoring \/ SendRestore
    \/ OpenFile \/ LogSaved \/ LogOpenFailed \/ LogFinished \/ SendHome

Spec == Init /\ [][Next]_vars

\* A run on its own, for the termination of a run: the object was either
\* never connected or connected with both links up when the run is called.
InitLive ==
    /\ \E up \in BOOLEAN :
          /\ dashboard = (IF up THEN "obj" ELSE "null")
          /\ primary = (IF up THEN "obj" ELSE "null")
          /\ db_connected = up /\ pri_connected = up
    /\ pc = "idle" /\ mode = "none"
    /\ cb = [log |-> TRUE, capture |-> TRUE, pose |-> TRUE]
    /\ rc = NoRecipe
    /\ center_pose = ZeroPose /\ points = << >>
    /\ i = 0 /\ timeout = 0 /\ p_dither = ZeroPose /\ polls = 0 /\ hits = 0
    /\ first_hit = 0 /\ timed_out_at = 0
    /\ data_lines = << >> /\ outfile = [status |-> "untouched", lines |-> << >>]
    /\ run_result = NoResult("none") /\ gil_held = TRUE
    /\ NoCalc
    /\ logged = {} /\ events = << >> /\ deviations = 0
    /\ capture_raised = {} /\ ub_oob = FALSE

\* the steps of a run
NextRun ==
    \/ StartRun
    \/ CheckNull \/ PowerOn \/ BrakeRelease \/ LogStart \/ LogInfo \/ GetCenter
    \/ LogMoving \/ LoopExit \/ SendBase \/ Poll
    \/ TimeoutAbort \/ Converged \/ Settle \/ Sample
    \/ LogData \/ LogTrigger \/ Capture \/ CatchLog \/ LogDone \/ NextPoint
    \/ Tilt \/ LogAdjust \/ SendDither \/ LogRestoring \/ SendRestore
    \/ OpenFile \/ LogSaved \/ LogOpenFailed \/ LogFinished \/ SendHome

\* the thread that executes a run keeps executing it: every call it makes
\* returns (or raises), so a step of the run that is possible is
\* eventually taken
SpecLive == InitLive /\ [][NextRun]_vars /\ WF_vars(NextRun)

\* the runs alone, without the assumption that a run keeps executing
SpecRun == InitLive /\ [][NextRun]_vars

TypeOK ==
    /\ dashboard \in {"null", "obj"} /\ primary \in {"null", "obj"}
    /\ mode \in {"none", "grid", "pyramid"}
    /\ i \in 0..Len(points)
    /\ timeout \in 0..BASE_TIMEOUT
    /\ Len(data_lines) <= Len(points)

\* ---------------------------------------------------------------------
\* Properties
\* ---------------------------------------------------------------------
\* the states right after a wait loop was left, its counters still live
WaitEnded == pc \in {"after_wait", "tilt", "settle", "next_point"} /\ polls > 0

\* the attempt budget of the wait that is running or was just left
WaitBudget ==
    CASE pc \in {"wait_base", "after_wait", "tilt"} ->
             (IF mode = "grid" THEN GRID_TIMEOUT ELSE BASE_TIMEOUT)
      [] pc \in {"wait_dither", "settle"} -> DITHER_TIMEOUT
      [] OTHER -> RESTORE_TIMEOUT

\* C1: every wait loop (grid base, pyramid base, dither, restore) ends
\* Converged (timeout > 0) at the first poll whose reading is within
\* tolerance, after exactly that many polls, and ends TimedOut
\* (timeout = 0) exactly when none of its N polls was within tolerance; a
\* reading within tolerance on the N-th poll counts as Converged.
C1_WaitOutcome ==
    /\ pc \in WaitPcs =>
          /\ first_hit = 0
          /\ timeout > 0
          /\ polls = WaitBudget - timeout
    /\ WaitEnded =>
          /\ (timeout > 0) <=> (first_hit # 0)
          /\ first_hit # 0 => polls = first_hit /\ hits = 1 /\ polls <= WaitBudget
          /\ first_hit = 0 => polls = WaitBudget /\ timeout = 0

\* a grid base wait that converged on its last (100th) poll
C1_Witness ==
    /\ pc = "after_wait"
    /\ polls = GRID_TIMEOUT
    /\ first_hit = GRID_TIMEOUT
    /\ timeout > 0

\* ---------------------------------------------------------------------
\* Reading the history
\* ---------------------------------------------------------------------
EvIdx == 1..Len(events)

FileEvs == {n \in EvIdx : events[n].e = "file"}

HomeEvs == {n \in EvIdx : events[n].e = "cmd" /\ events[n].kind = "home"}

\* the run got past the null check, powerOn and brakeRelease
PassedReadiness == "start" \in logged

\* the pose of the "sample" event of point t
SampledAt(t) ==
    LET n == CHOOSE n \in EvIdx : events[n].e = "sample" /\ events[n].pt = t
    IN  events[n].pose

\* the records are those of points 1..k, in order
RecordsAreFirst(k) ==
    /\ Len(data_lines) = k
    /\ \A n \in 1..k : data_lines[n][1] = n

\* C2: in grid mode, when the base move of point t times out, nothing is
\* produced for a later point (no command, record or capture), no record
\* and no capture is produced for point t itself, the records are those of
\* the points before t, and the run returns only through the save block,
\* which writes exactly those records.
C2_TimeoutAborts ==
    (mode = "grid" /\ timed_out_at # 0) =>
        /\ \A n \in EvIdx : events[n].pt <= timed_out_at
        /\ \A n \in EvIdx : events[n].pt = timed_out_at => events[n].e \in {"cmd", "wait"}
        /\ RecordsAreFirst(timed_out_at - 1)
        /\ pc = "returned" => outfile.status # "untouched"
        /\ outfile.status = "written" => outfile.lines = data_lines

\* a grid run that timed out at point 3 and returned with two records on file
C2_Witness ==
    /\ mode = "grid" /\ pc = "returned" /\ timed_out_at = 3
    /\ outfile.status = "written" /\ Len(outfile.lines) = 2

\* C3 (state part): the record of every point at which the capture
\* callback raised is kept with the pose sampled at that point, and a run
\* that returns without a timeout has one record per target point.
C3_RecordsKept ==
    /\ \A t \in capture_raised :
          \E n \in 1..Len(data_lines) :
              data_lines[n][1] = t /\ data_lines[n][2] = SampledAt(t)
    /\ (pc = "returned" /\ PassedReadiness /\ timed_out_at = 0) =>
          RecordsAreFirst(Len(points))

\* C3 (step part): a raising capture callback is caught: the step leaves
\* the records untouched and continues in the handler, not outside the run.
C3_RaiseIsCaught ==
    (pc = "capture" /\ capture_raised' # capture_raised) =>
        /\ pc' = "catch_log"
        /\ data_lines' = data_lines
        /\ i' = i

\* C3: a capture callback that raises does not abort the run: the record of
\* that point is kept, the loop goes on, and when all moves converge the
\* final record set has one record per target point.
C3_CaptureFailureKept == []C3_RecordsKept /\ [][C3_RaiseIsCaught]_vars

\* a 4-point run in which the callback raised at point 2 and 4 records remain
C3_Witness ==
    /\ pc = "returned" /\ Len(points) = 4 /\ capture_raised = {2}
    /\ RecordsAreFirst(4)
    /\ data_lines[2][2] = SampledAt(2)

\* C4: no failure of an external callback (pose provider, capture trigger,
\* log sink) leaves run_calibration / run_3d_calibration as an exception.
C4_NoCallbackFailureEscapes == run_result.how # "exception"

\* the robot link is up: the last connect() returned true and disconnect()
\* was not called since
LinkUp == db_connected /\ pri_connected

\* C5: a run started while the robot link is absent reports the error
\* through the log sink and ends without any motion command, capture
\* callback or data-file write.
C5_NoLinkNoMotion ==
    (pc # "idle" /\ ~LinkUp) =>
        /\ events = << >>
        /\ outfile.status = "untouched"
        /\ pc = "returned" =>
              logged \cap {"not_connected", "power_on_failed", "brake_failed"} # {}

\* C6: a run that passed the readiness checks writes the records at most
\* once, submits the final command at most once, only after the save block,
\* with the center pose sampled at the start as target, does nothing after
\* it (no poll, no wait), and returns only after both have happened.
C6_SaveThenHome ==
    /\ Cardinality(FileEvs) <= 1
    /\ Cardinality(HomeEvs) <= 1
    /\ outfile.status = "written" => outfile.lines = data_lines
    /\ \A h \in HomeEvs :
          /\ h = Len(events)
          /\ h > 1 /\ (h - 1) \in FileEvs
          /\ events[h].pose = center_pose
          /\ pc = "returned"
    /\ (pc = "returned" /\ PassedReadiness) =>
          /\ Cardinality(FileEvs) = 1
          /\ Cardinality(HomeEvs) = 1

\* a grid run aborted by a timeout that wrote its file and went home
C6_Witness ==
    /\ mode = "grid" /\ pc = "returned" /\ timed_out_at = 2
    /\ Cardinality(FileEvs) = 1 /\ Cardinality(HomeEvs) = 1
    /\ center_pose # ZeroPose

\* C7: when the data file cannot be opened, the failure is logged, the
\* accumulated records remain available as the result of the run, and the
\* final return-to-center command is still issued.
C7_RecordsSurviveWriteFailure ==
    (pc = "returned" /\ outfile.status = "failed") =>
        /\ "open_failed" \in logged
        /\ run_result.records = data_lines
        /\ HomeEvs # {}

\* the events of one pyramid point, in program order
PyramidPattern ==
    << <<"cmd", "base">>, <<"wait", "base">>, <<"cmd", "dither">>, <<"wait", "dither">>,
       <<"settle", "">>, <<"sample", "">>, <<"record", "">> >>
    \o (IF cb.capture THEN << <<"capture", "">> >> ELSE << >>)
    \o << <<"cmd", "restore">>, <<"wait", "restore">> >>

\* C10: in pyramid mode the events of every target point occur in the
\* order base command, base wait, dither command, dither wait, settle
\* delay, pose sample, record append, capture callback (when one is
\* supplied), restore command, restore wait, each exactly once, the restore
\* command repeats the base command of the point, and the events of point
\* t + 1 start only after all events of point t.
C10_PyramidPointOrder ==
    mode = "pyramid" =>
        \A n \in EvIdx :
            events[n].pt >= 1 =>
                LET PL  == Len(PyramidPattern)
                    pos == n - (events[n].pt - 1) * PL
                IN  /\ pos \in 1..PL
                    /\ <<events[n].e, events[n].kind>> = PyramidPattern[pos]
                    /\ events[n].kind = "restore" =>
                          /\ events[n - pos + 1].kind = "base"
                          /\ events[n].pose = events[n - pos + 1].pose

\* a pyramid run with a capture callback that processed all 4 points
C10_Witness ==
    /\ mode = "pyramid" /\ pc = "returned" /\ cb.capture
    /\ Len(points) = 4
    /\ Len(events) = 4 * Len(PyramidPattern) + 2

\* C11: in pyramid mode the dither command of a point is submitted only
\* when the base wait of that point converged: no dither command exists
\* for a point whose base wait ended with the attempts used up.
C11_DitherOnlyOnConvergence ==
    (mode = "pyramid" /\ timed_out_at # 0) =>
        \A n \in EvIdx :
            ~(events[n].e = "cmd" /\ events[n].kind = "dither"
              /\ events[n].pt = timed_out_at)

\* the events of one grid point whose wait converged, in program order
GridPattern ==
    << <<"cmd", "base">>, <<"wait", "base">>, <<"settle", "">>, <<"sample", "">>,
       <<"record", "">> >>
    \o (IF cb.capture THEN << <<"capture", "">> >> ELSE << >>)

\* C12: in grid mode the events of a point whose base wait converged are,
\* in this order, the settle delay, one pose sample taken after the wait,
\* the record append with the pose of that sample, the capture callback and
\* then the next point; a point whose wait did not converge gets no
\* settle, sample, record or capture.
C12_GridPointOrder ==
    mode = "grid" =>
        /\ \A n \in EvIdx :
              events[n].pt >= 1 =>
                  LET PL  == Len(GridPattern)
                      t   == events[n].pt
                      pos == n - (t - 1) * PL
                  IN  /\ pos \in 1..PL
                      /\ <<events[n].e, events[n].kind>> = GridPattern[pos]
                      /\ events[n].e = "record" =>
                            /\ events[n].pose = events[n - 1].pose
                            /\ Len(data_lines) >= t
                            /\ data_lines[t] = <<t, events[n].pose>>
        /\ timed_out_at # 0 =>
              \A n \in EvIdx :
                  events[n].pt = timed_out_at => events[n].e \in {"cmd", "wait"}
        /\ Len(data_lines) = Cardinality({n \in EvIdx : events[n].e = "record"})

\* a grid run that finished its second point; the record of that point is
\* the pose sampled after the wait, not the pose the robot was sent to
C12_Witness ==
    /\ mode = "grid" /\ pc = "next_point" /\ i = 1 /\ cb.capture
    /\ Len(events) = 2 * Len(GridPattern)
    /\ Len(data_lines) = 2
    /\ data_lines[2][2] # points[2]
    /\ data_lines[2][2] # ZeroPose

\* C13 (state part): the events of the points follow one another: the
\* base command of point t + 1 comes right after the last event of point
\* t, which is its capture callback (its record when no callback is
\* supplied) in grid mode and its restore wait in pyramid mode.
C13_OnePointAtATime ==
    \A n \in EvIdx :
        /\ n > 1 => (events[n].pt = 0 \/ events[n].pt >= events[n - 1].pt)
        /\ (events[n].e = "cmd" /\ events[n].kind = "base" /\ events[n].pt > 1) =>
              LET prev == events[n - 1] IN
              /\ prev.pt = events[n].pt - 1
              /\ mode = "grid" => prev.e = (IF cb.capture THEN "capture" ELSE "record")
              /\ mode = "pyramid" =>
                    /\ prev.e = "wait" /\ prev.kind = "restore"
                    /\ cb.capture =>
                          \E m \in 1..(n - 1) :
                              events[m].e = "capture" /\ events[m].pt = prev.pt

\* C13 (step part): a step of a wait loop produces nothing but the end of
\* that wait, and the capture callback is invoked only from the capture
\* block, outside every wait loop.
C13_NoCaptureWhilePolling ==
    /\ pc \in WaitPcs =>
          \/ events' = events
          \/ /\ Len(events') = Len(events) + 1
             /\ events'[Len(events')].e = "wait"
    /\ (Len(events') > Len(events) /\ events'[Len(events')].e = "capture") =>
          /\ pc = "capture"
          /\ pc' \notin WaitPcs

\* C13: points are processed strictly one after another, and no capture
\* callback is invoked while a wait loop is polling.
C13_StrictlySerial == []C13_OnePointAtATime /\ [][C13_NoCaptureWhilePolling]_vars

\* the base wait of pyramid point 2 is polling after the capture callback
\* and the restore wait of point 1
C13_Witness ==
    /\ mode = "pyramid" /\ cb.capture /\ pc = "wait_base" /\ i = 1 /\ polls > 0
    /\ \E n \in EvIdx : events[n].e = "capture" /\ events[n].pt = 1
    /\ events[Len(events) - 1].kind = "restore"

\* the run has ended: by return, by an exception or with the process
Ended == pc \in {"returned", "thrown", "crashed"}

\* the commands of one kind submitted so far
Cmds(kind) == {n \in EvIdx : events[n].e = "cmd" /\ events[n].kind = kind}

\* C14 (state part): a wait never makes more polls than its attempt budget
\* (100 in grid mode; 200, 50, 50 in pyramid mode), and a run starts at
\* most one base wait per generated point (9 in grid mode, 4 x layers in
\* pyramid mode) and, in pyramid mode only, at most one dither wait and one
\* restore wait per point.
C14_PollBudget ==
    /\ (pc \in WaitPcs \/ WaitEnded) => polls <= WaitBudget
    /\ polls <= BASE_TIMEOUT
    /\ Cardinality(Cmds("base")) <= Len(points)
    /\ Cardinality(Cmds("dither")) <= (IF mode = "pyramid" THEN Len(points) ELSE 0)
    /\ Cardinality(Cmds("restore")) <= (IF mode = "pyramid" THEN Len(points) ELSE 0)
    /\ mode = "grid" => Len(points) \in {0, 9}
    /\ mode = "pyramid" => Len(points) \in {0, 4 * rc.layers}

\* C14: every run that was started ends, whatever the pose provider
\* reports, and makes at most 9 x 100 polls in grid mode and at most
\* 4 x layers x (200 + 50 + 50) polls in pyramid mode.
C14_RunTerminates == []C14_PollBudget /\ ((pc = "check") ~> Ended)

\* a grid run whose provider never reported the first point reached: the
\* wait used its 100 polls and the run returned
C14_Witness ==
    /\ mode = "grid" /\ pc = "returned" /\ timed_out_at = 1
    /\ Cardinality(Cmds("base")) = 1
    /\ data_lines = << >>

\* the code of a run is executing
Running == pc \notin {"idle", "returned", "thrown", "crashed", "gen", "generated"}

\* C15: while run_calibration or run_3d_calibration is executing, the
\* thread that runs it does not hold the Python GIL between two callback
\* invocations, in particular not while it sleeps between two polls of a
\* wait loop or during the settle sleep; the caller holds it again once
\* the run has returned or raised.
C15_SleepsWithoutGil ==
    /\ Running => ~gil_held
    /\ pc \in WaitPcs \cup {"settle"} => ~gil_held
    /\ pc \in {"idle", "returned", "thrown"} => gil_held

\* a pyramid run at its settle sleep
C15_Witness ==
    /\ mode = "pyramid" /\ pc = "settle" /\ ~gil_held
    /\ Cardinality(Cmds("dither")) = 1

\* ---------------------------------------------------------------------
\* Attempts and commands of the waits
\* ---------------------------------------------------------------------
\* the attempts a wait of the given position starts with
BudgetOf(waitPc) ==
    CASE waitPc = "wait_base" -> (IF mode = "grid" THEN 100 ELSE 200)
      [] waitPc = "wait_dither" -> 50
      [] OTHER -> 50

\* the last event is the end of a wait of the given kind
JustWaited(kind) ==
    /\ events # << >>
    /\ events[Len(events)].e = "wait" /\ events[Len(events)].kind = kind

\* C27 (state part): a wait that is polling has made as many polls as
\* attempts are gone from its budget of 100 (grid base), 200 (pyramid
\* base), 50 (dither) or 50 (restore) and has at least one attempt left; a
\* wait that ended made at most that many polls.
C27_WithinBudget ==
    /\ pc \in WaitPcs =>
          /\ timeout >= 1
          /\ polls + timeout = BudgetOf(pc)
    /\ (JustWaited("base") /\ mode = "grid") => polls <= 100
    /\ (JustWaited("base") /\ mode = "pyramid") => polls <= 200
    /\ JustWaited("dither") => polls <= 50
    /\ JustWaited("restore") => polls <= 50

\* C27 (step part): a wait starts with its full budget, whatever the waits
\* before it used, and every poll that does not end the wait takes exactly
\* one attempt from it.
C27_BudgetIsFixed ==
    /\ (pc \notin WaitPcs /\ pc' \in WaitPcs) =>
          /\ timeout' = (CASE pc' = "wait_base" -> (IF mode = "grid" THEN 100 ELSE 200)
                           [] pc' = "wait_dither" -> 50
                           [] OTHER -> 50)
          /\ polls' = 0
    /\ (pc \in WaitPcs /\ pc' = pc) =>
          /\ timeout' = timeout - 1
          /\ polls' = polls + 1

\* C27: each wait loop polls the pose provider at most its fixed attempt
\* budget: 100 polls for a grid base move, 200 for a pyramid base move, 50
\* for a dither move and 50 for a restore move; the budget does not change
\* during a run.
C27_PollBudgets == []C27_WithinBudget /\ [][C27_BudgetIsFixed]_vars

\* the base wait of the second pyramid point used its 200 polls after the
\* waits of the first point ended early
C27_Witness ==
    /\ mode = "pyramid" /\ i = 1 /\ pc = "tilt"
    /\ JustWaited("base") /\ polls = 200 /\ timeout = 0

\* the motion commands submitted so far
AllCmds == {n \in EvIdx : events[n].e = "cmd"}

\* C28 (state part): the end of every wait directly follows the one
\* command of that wait, a wait that is polling has its command as the last
\* event, no point gets a second command of the same kind, and a run that
\* returned after the readiness checks submitted one command per point it
\* moved to plus the final one in grid mode, and three commands per point
\* plus the final one in pyramid mode.
C28_OneCommandPerWait ==
    /\ \A n \in EvIdx :
          events[n].e = "wait" =>
              /\ n > 1
              /\ events[n - 1].e = "cmd"
              /\ events[n - 1].kind = events[n].kind
              /\ events[n - 1].pt = events[n].pt
    /\ pc \in WaitPcs =>
          /\ events # << >>
          /\ events[Len(events)].e = "cmd"
          /\ events[Len(events)].kind = WaitKind
          /\ events[Len(events)].pt = point_idx
    /\ \A n \in AllCmds, m \in AllCmds :
          (events[n].kind = events[m].kind /\ events[n].pt = events[m].pt) => n = m
    /\ (pc = "returned" /\ PassedReadiness /\ mode = "grid") =>
          Cardinality(AllCmds) =
              (IF timed_out_at = 0 THEN Len(points) ELSE timed_out_at) + 1
    /\ (pc = "returned" /\ PassedReadiness /\ mode = "pyramid") =>
          /\ Len(points) = 4 * rc.layers
          /\ Cardinality(AllCmds) = 3 * 4 * rc.layers + 1

\* C28 (step part): no step of a wait loop and no step that handles a
\* timeout submits a command.
C28_NoResubmission ==
    (pc \in WaitPcs \cup {"after_wait"}) =>
        Cardinality({n \in 1..Len(events') : events'[n].e = "cmd"})
            = Cardinality(AllCmds)

\* C28: each move-and-wait submits exactly one motion command, before its
\* first poll, and never re-submits during polling or after a timeout,
\* whatever the command channel returns: a completed grid run over n
\* points submits n + 1 commands and a pyramid run over 4 x L points
\* submits 3 x 4 x L + 1 commands.
C28_SingleCommand == []C28_OneCommandPerWait /\ [][C28_NoResubmission]_vars

\* a pyramid run of one layer returned: 4 base, 4 dither and 4 restore
\* commands and the final one
C28_Witness ==
    /\ mode = "pyramid" /\ pc = "returned" /\ rc.layers = 1
    /\ Cardinality(Cmds("base")) = 4 /\ Cardinality(Cmds("dither")) = 4
    /\ Cardinality(Cmds("restore")) = 4
    /\ Cardinality(AllCmds) = 13

\* ---------------------------------------------------------------------
\* Records, captures and readings without a pose
\* ---------------------------------------------------------------------
\* the capture callback invocations so far
CapEvs == {n \in EvIdx : events[n].e = "capture"}

\* C31 (state part): a pyramid run never reaches the timeout handling of
\* the grid, and one that returned after the readiness checks has one
\* record for each of its 4 x layers points and, when a capture callback
\* is supplied, one capture invocation for each of them; while it runs,
\* every point it has gone past has its record and its capture invocation.
C31_AllPointsRecorded ==
    mode = "pyramid" =>
        /\ pc # "after_wait"
        /\ "timeout" \notin logged
        /\ (pc = "returned" /\ PassedReadiness) =>
              /\ Len(points) = 4 * rc.layers
              /\ RecordsAreFirst(4 * rc.layers)
              /\ cb.capture =>
                    \A t \in 1..(4 * rc.layers) :
                        \E n \in CapEvs : events[n].pt = t
        /\ PassedReadiness =>
              /\ Len(data_lines) \in {i, i + 1}
              /\ RecordsAreFirst(Len(data_lines))
              /\ cb.capture =>
                    \A t \in 1..i : \E n \in CapEvs : events[n].pt = t

\* C31 (step part): the poll that uses up the last attempt of a pyramid
\* wait goes on with the step that follows the wait: the tilt after the
\* base wait, the settle sleep after the dither wait, the next point after
\* the restore wait.
C31_TimeoutGoesOn ==
    (mode = "pyramid" /\ pc \in WaitPcs /\ timeout = 1 /\ timeout' = 0) =>
        /\ pc' = (CASE pc = "wait_base" -> "tilt"
                    [] pc = "wait_dither" -> "settle"
                    [] OTHER -> "next_point")
        /\ i' = i /\ data_lines' = data_lines

\* C31: in pyramid mode no timeout of a base, dither or restore wait
\* aborts the run or skips a step: every run that passes the readiness
\* checks and returns has appended a record and invoked the capture
\* callback for all 4 x layers points, also when no wait converged.
C31_PyramidIgnoresTimeouts == []C31_AllPointsRecorded /\ [][C31_TimeoutGoesOn]_vars

\* the restore wait of the last point of a pyramid used its 50 polls;
\* all four records and captures exist
C31_Witness ==
    /\ mode = "pyramid" /\ cb.capture /\ pc = "next_point" /\ i = 3
    /\ JustWaited("restore") /\ polls = 50 /\ timeout = 0
    /\ Len(data_lines) = 4 /\ Cardinality(CapEvs) = 4

\* C32 (state part): the records carry the point indices 1, 2, ..., k in
\* order, k not above the number of targets; every capture invocation
\* directly follows the record of its point and carries that record's
\* index, which is the last one appended; no point has two capture
\* invocations, and with a capture callback the capture arguments are
\* 1, 2, ... up to the last or the last but one record.
C32_RecordsAndCaptures ==
    /\ Len(data_lines) <= Len(points)
    /\ RecordsAreFirst(Len(data_lines))
    /\ \A n \in CapEvs :
          /\ n > 1
          /\ events[n - 1].e = "record"
          /\ events[n - 1].pt = events[n].pt
          /\ events[n].pt = Cardinality({m \in CapEvs : m <= n})
          /\ events[n].pt <= Len(data_lines)
    /\ \A n, m \in CapEvs : events[n].pt = events[m].pt => n = m
    /\ cb.capture => Cardinality(CapEvs) \in {Len(data_lines) - 1, Len(data_lines)}

\* C32 (step part): a step leaves the record list alone or appends one
\* record to it, and a capture invocation is made with the index of the
\* last record.
C32_AppendOnly ==
    /\ \/ data_lines' = data_lines
       \/ /\ Len(data_lines') = Len(data_lines) + 1
          /\ SubSeq(data_lines', 1, Len(data_lines)) = data_lines
          /\ data_lines'[Len(data_lines')][1] = Len(data_lines')
    /\ (pc = "capture" /\ cb.capture) =>
          /\ Len(events') = Len(events) + 1
          /\ events'[Len(events')].e = "capture"
          /\ events'[Len(events')].pt = data_lines[Len(data_lines)][1]

\* C32: the record list is append-only with the point indices 1, 2, ..., k
\* in order, k not above the number of targets; the capture callback is
\* invoked at most once per point, always with the index of the record
\* appended immediately before it, so the capture arguments are 1, 2, ...
\* in order as well.
C32_OrderedDataset == []C32_RecordsAndCaptures /\ [][C32_AppendOnly]_vars

\* a grid run at its sixth point: six records, the sixth capture invoked
C32_Witness ==
    /\ mode = "grid" /\ cb.capture /\ pc = "log_done" /\ i = 5
    /\ Len(data_lines) = 6 /\ Cardinality(CapEvs) = 6
    /\ events[Len(events)].e = "capture" /\ events[Len(events)].pt = 6

\* the readings with fewer than 6 values a poll of the current wait may get
ShortReadings == {r \in PollReadings(WaitTarget) : Len(r) < 6}

\* the target of the current wait lies within 0.002 m of the origin
TargetNearOrigin ==
    WaitTarget[0] * WaitTarget[0] + WaitTarget[1] * WaitTarget[1]
      + WaitTarget[2] * WaitTarget[2] < POS_TOL * POS_TOL

\* the orientation of the target of the current wait is within 0.05 rad of
\* the zero orientation
TargetNearlyUnturned ==
    WaitTarget[3] * WaitTarget[3] + WaitTarget[4] * WaitTarget[4]
      + WaitTarget[5] * WaitTarget[5] < ROT_TOL * ROT_TOL

\* when a reading without pose counts as converged, as stated: by the
\* translation of the target alone, in every wait
ZeroConverges_asStated == TargetNearOrigin

\* when a reading without pose counts as converged: by the translation of
\* the target in the base and restore waits, by its translation and its
\* orientation in the dither wait
ZeroConverges ==
    /\ TargetNearOrigin
    /\ pc = "wait_dither" => TargetNearlyUnturned

\* a reading without pose in the state: a run without pose provider gets
\* the all-zero pose as its center, every short reading of a poll is taken
\* as the all-zero pose and judged as `converges` says, and a run without
\* pose provider has all-zero records only.
ZeroReadingState(converges) ==
    /\ (~cb.pose /\ pc \in WaitPcs) => center_pose = ZeroPose
    /\ pc \in WaitPcs =>
          \A r \in ShortReadings :
              /\ ConvertReading(cb.pose, r) = ZeroPose
              /\ Arrived(ConvertReading(cb.pose, r)) <=> converges
    /\ ~cb.pose => \A n \in 1..Len(data_lines) : data_lines[n][2] = ZeroPose

\* a reading without pose in a step: the poll of a run without pose
\* provider leaves the wait with attempts left exactly when `converges`
\* says so and otherwise counts one attempt; no such poll ends the run;
\* the sample of a run without pose provider, and a sample whose reading
\* is short, appends the all-zero record of the point and goes on with
\* the log line of the record.
ZeroReadingStep(converges) ==
    /\ (~cb.pose /\ pc \in WaitPcs /\ timeout > 0) =>
          /\ (pc' = AfterWait /\ timeout' = timeout) <=> converges
          /\ ~converges => timeout' = timeout - 1
          /\ pc' \notin {"thrown", "returned"}
    /\ (pc = "sample" /\ (~cb.pose \/ deviations' = deviations + 1)) =>
          /\ data_lines' = Append(data_lines, <<point_idx, ZeroPose>>)
          /\ pc' = "log_data"

\* C33 (as stated): when the pose provider is absent or returns fewer than
\* 6 values the reading is the all-zero pose; in every wait loop it counts
\* as converged exactly when the target's translation is within 0.002 m
\* of the origin; its record is all zero; the run is not aborted.
C33_ZeroReading_asStated ==
    []ZeroReadingState(ZeroConverges_asStated)
      /\ [][ZeroReadingStep(ZeroConverges_asStated)]_vars

\* C33 (amended): when the pose provider is absent or returns fewer than
\* 6 values the reading is the all-zero pose; in a base or restore wait it
\* counts as converged exactly when the target's translation is within
\* 0.002 m of the origin, in the dither wait exactly when in addition the
\* target's orientation is within 0.05 rad of zero; its record is all
\* zero; the run is not aborted.
C33_ZeroReading ==
    []ZeroReadingState(ZeroConverges) /\ [][ZeroReadingStep(ZeroConverges)]_vars

\* a run without pose provider on the 2 mm pyramid: the base wait of the
\* first point converged on the all-zero reading (no base timeout), the
\* dither wait, whose target is tilted, used up its attempts, and the
\* record is all zero
C33_Witness ==
    /\ ~cb.pose /\ mode = "pyramid" /\ rc = TinyRecipe /\ pc = "log_data"
    /\ timed_out_at = 0 /\ timeout = 0
    /\ data_lines = << <<1, ZeroPose>> >>

\* ---------------------------------------------------------------------
\* Point generation on its own: the generation loops of the two runs
\* applied to a range of center poses and recipes
\* ---------------------------------------------------------------------
GenCenters ==
    { MkPose(t[1], t[2], t[3], r[1], r[2], r[3]) :
        t \in { <<0, 0, 0>>, <<3000, -2000, 4000>>, <<-1234, 567, 89>> },
        r \in { <<0, 0, 0>>, <<31415, 0, -15707>>, <<100, -200, 300>> } }

\* tilt angles of the generated recipes, in degrees (0 is the default of
\* the binding)
GenTilts == {0, 10, 25}

GenRecipes ==
    { [layers |-> l, base_width |-> w[1], top_width |-> w[2], height |-> w[3],
       tilt_angle |-> ta, direction |-> dir] :
        l \in 0..MaxLayers,
        w \in { <<100, 50, 50>>, <<60, 20, 30>>, <<50, 100, 40>> },
        ta \in GenTilts,
        dir \in Directions \cup {"none"} }

InitGen ==
    /\ dashboard = "obj" /\ primary = "obj"
    /\ db_connected = TRUE /\ pri_connected = TRUE
    /\ pc = "gen"
    /\ mode \in {"grid", "pyramid"}
    /\ cb = [log |-> TRUE, capture |-> TRUE, pose |-> TRUE]
    /\ rc \in (IF mode = "pyramid" THEN GenRecipes ELSE {NoRecipe})
    /\ center_pose \in GenCenters
    /\ points = << >>
    /\ i = 0 /\ timeout = 0 /\ p_dither = ZeroPose /\ polls = 0 /\ hits = 0
    /\ first_hit = 0 /\ timed_out_at = 0
    /\ data_lines = << >> /\ outfile = [status |-> "untouched", lines |-> << >>]
    /\ run_result = NoResult("none") /\ gil_held = TRUE
    /\ NoCalc
    /\ logged = {} /\ events = << >> /\ deviations = 0
    /\ capture_raised = {} /\ ub_oob = FALSE

\* the generation loops of run_calibration
GenGrid ==
    /\ pc = "gen" /\ mode = "grid"
    /\ points' = GridPoints(center_pose)
    /\ pc' = "generated"
    /\ UNCHANGED <<calc, link, input, center_pose, loopv, out, hist, timed_out_at>>

\* the generation loops of run_3d_calibration
GenPyramid ==
    /\ pc = "gen" /\ mode = "pyramid"
    /\ points' = PyramidTargets(center_pose, rc)
    /\ pc' = "generated"
    /\ UNCHANGED <<calc, link, input, center_pose, loopv, out, hist, timed_out_at>>

\* the header of `for (size_t i = 0; i < targets.size(); ++i)` of
\* run_3d_calibration, taken from one tilt block to the next: the dither
\* pose of every generated point is built in turn by the action Tilt
GenStep ==
    /\ mode = "pyramid"
    /\ \/ pc = "generated" /\ Len(points) > 0 /\ i' = 0
       \/ pc = "log_adjust" /\ i + 1 < Len(points) /\ i' = i + 1
    /\ pc' = "tilt"
    /\ UNCHANGED <<calc, link, input, geom, timeout, p_dither, polls, hits,
                   first_hit, out, hist, timed_out_at>>

NextGen == GenGrid \/ GenPyramid \/ GenStep \/ Tilt

SpecGen == InitGen /\ [][NextGen]_vars

\* C8: grid mode generates exactly 9 points: the center with Y offset dy
\* and Z offset dz, dz in (-step, 0, +step) as the outer loop and dy in
\* (-step, 0, +step) as the inner loop; X, rx, ry, rz are the center's.
C8_GridPoints ==
    (pc = "generated" /\ mode = "grid") =>
        /\ Len(points) = 9
        /\ \A a \in 0..2, b \in 0..2 :
              points[3 * a + b + 1] =
                  [center_pose EXCEPT ![1] = center_pose[1] + (b - 1) * GRID_STEP,
                                      ![2] = center_pose[2] + (a - 1) * GRID_STEP]

\* a generated grid around a center with non-zero position and orientation
C8_Witness ==
    /\ pc = "generated" /\ mode = "grid"
    /\ center_pose = MkPose(3000, -2000, 4000, 31415, 0, -15707)
    /\ points[1] = MkPose(3000, -2500, 3500, 31415, 0, -15707)
    /\ points[2] = MkPose(3000, -2000, 3500, 31415, 0, -15707)

\* the corner order named by the claim
CornerOrder == << <<-1, -1>>, <<-1, 1>>, <<1, 1>>, <<1, -1>> >>

C20_LayerSizes ==
    (pc = "generated" /\ mode = "pyramid") =>
        LET cfg == DirConfig(rc.direction)
            L == rc.layers
            base == MmToM(rc.base_width)
            top == MmToM(rc.top_width)
            height == MmToM(rc.height) * cfg.h_sign
            width(l) == 2 * (center_pose[cfg.ax_w1] - points[4 * l + 1][cfg.ax_w1])
            offset(l) == points[4 * l + 1][cfg.ax_h] - center_pose[cfg.ax_h]
        IN  /\ L = 1 => width(0) = base /\ offset(0) = 0
            /\ L > 1 =>
                  /\ \A l \in 0..(L - 1) :
                        /\ Abs(width(l) * (L - 1) - (base * (L - 1) - (base - top) * l))
                              < 2 * (L - 1)
                        /\ Abs(offset(l) * (L - 1) - height * l) < L - 1
                  /\ width(0) = base /\ offset(0) = 0
                  /\ width(L - 1) = top /\ offset(L - 1) = height
            /\ (L = 3 /\ rc.base_width = 100 /\ rc.top_width = 50) =>
                  <<width(0), width(1), width(2)>> = <<1000, 750, 500>>

\* three layers of 100 mm to 50 mm, 50 mm high along Y-: the middle layer is
\* 75 mm wide at -25 mm, the top layer 50 mm wide at -50 mm
C20_Witness ==
    /\ pc = "generated" /\ mode = "pyramid"
    /\ rc.layers = 3 /\ rc.base_width = 100 /\ rc.top_width = 50 /\ rc.height = 50
    /\ rc.direction = "Y-"
    /\ Len(points) = 12
    /\ points[5][0] - center_pose[0] = -375 /\ points[5][1] - center_pose[1] = -250
    /\ points[9][0] - center_pose[0] = -250 /\ points[9][1] - center_pose[1] = -500

\* what the tilt block added to component k of the base point of target i
DitherDelta(k) == p_dither[k] - points[i + 1][k]

\* the dither pose of target number i has just been built
Tilted == pc = "log_adjust" /\ mode = "pyramid"

\* the tilt applied to the dither pose held by p_dither, as a magnitude
TiltApplied == Abs(DitherDelta(DirConfig(rc.direction).ax_r1))

\* C21 (state part): the tilt of a point of layer l of L > 1 layers is
\* tilt_angle x (1 - 0.6 x l / (L - 1)) up to the rounding of one angle
\* unit, on both tilt components: the full angle on the first layer, 0.4
\* of it on the last; with L = 1 it is the full angle.
C21_TiltOfLayer ==
    Tilted =>
        LET cfg  == DirConfig(rc.direction)
            L    == rc.layers
            l    == i \div 4
            full == DegToRad(rc.tilt_angle)
        IN  /\ Abs(DitherDelta(cfg.ax_r2)) = TiltApplied
            /\ L = 1 => TiltApplied = full
            /\ L > 1 =>
                  /\ Abs(TiltApplied * 10 * (L - 1) - full * (10 * (L - 1) - 6 * l))
                        < 10 * (L - 1)
                  /\ l = 0 => TiltApplied = full
                  /\ l = L - 1 => Abs(10 * TiltApplied - 4 * full) < 10

\* C21 (step part): from one point to the next the tilt does not grow
C21_TiltNeverGrows ==
    (pc = "tilt" /\ pc' = "log_adjust" /\ mode = "pyramid" /\ i > 0) =>
        Abs(p_dither'[DirConfig(rc.direction).ax_r1]
                - points[i + 1][DirConfig(rc.direction).ax_r1])
            <= Abs(p_dither[DirConfig(rc.direction).ax_r1]
                       - points[i][DirConfig(rc.direction).ax_r1])

\* C21: the tilt magnitude of the dither pose of a point in layer l of L
\* layers is tiltAngle x (1 - 0.6 x l / (L - 1)) for L > 1: the full
\* tiltAngle on the first layer, tiltAngle x 0.4 on the last layer,
\* non-increasing from layer to layer; for L = 1 it is the full tiltAngle.
C21_TiltMagnitude == []C21_TiltOfLayer /\ [][C21_TiltNeverGrows]_vars

\* the first corner of the last of six layers tilted by 10 degrees along
\* Z-: 0.4 x 0.1745 rad on rx and ry
C21_Witness ==
    /\ Tilted /\ rc.layers = 6 /\ rc.tilt_angle = 10 /\ rc.direction = "Z-"
    /\ i = 20
    /\ DitherDelta(3) = 698 /\ DitherDelta(4) = 698

\* C22: for each of the six directions the position of the dither pose of
\* a point is the position of its base point shifted by 0.0001 m along the
\* height axis of the direction; the two width-axis coordinates are those
\* of the base point.
C22_DitherPosition ==
    (Tilted /\ rc.direction \in Directions) =>
        LET cfg == DirConfig(rc.direction)
        IN  /\ DitherDelta(cfg.ax_h) = Z_SHIFT
            /\ DitherDelta(cfg.ax_w1) = 0
            /\ DitherDelta(cfg.ax_w2) = 0

\* the rotation component that is neither of the two tilt components
FreeRotation(direction) ==
    CHOOSE k \in 3..5 :
        k \notin {DirConfig(direction).ax_r1, DirConfig(direction).ax_r2}

\* C23: for each of the six directions the secondary rotation of 2
\* degrees, positive at corners 0 and 2 and negative at corners 1 and 3,
\* is added to the one component among rx, ry, rz that is not a tilt
\* component of the direction.
C23_SecondaryRotation ==
    (Tilted /\ rc.direction \in Directions) =>
        DitherDelta(FreeRotation(rc.direction)) =
            (IF (i % 4) % 2 = 0 THEN RZ_PERTURB ELSE -RZ_PERTURB)

\* base point and dither pose of corner c of the layer of target i; the
\* dither pose of target i itself is the one held by p_dither
LayerBase(c) == points[4 * (i \div 4) + c + 1]
LayerDither(c) ==
    IF c = i % 4 THEN p_dither
    ELSE DitherPose(LayerBase(c), rc, 4 * (i \div 4) + c)

\* side of corner c along translation axis ax, and sign of the tilt it
\* received on rotation component r
SideOf(c, ax) == Sgn(LayerBase(c)[ax] - center_pose[ax])
TiltSign(c, r) == Sgn(LayerDither(c)[r] - LayerBase(c)[r])

\* C24: the tilt is consistently inward at the four corners of a layer.
\* The rotation component tied to a width axis is the one the direction
\* table pairs with it (ax_r2 with ax_w1, ax_r1 with ax_w2), and the side
\* of a corner is the sign of its offset along that axis: two corners on
\* the same side get a tilt of the same sign on that component, two
\* corners on opposite sides get tilts of opposite signs.
C24_InwardTilt ==
    (Tilted /\ rc.tilt_angle > 0) =>
        LET cfg == DirConfig(rc.direction)
        IN  \A a \in 0..3, b \in 0..3 :
                /\ (SideOf(a, cfg.ax_w1) = SideOf(b, cfg.ax_w1))
                       <=> (TiltSign(a, cfg.ax_r2) = TiltSign(b, cfg.ax_r2))
                /\ (SideOf(a, cfg.ax_w2) = SideOf(b, cfg.ax_w2))
                       <=> (TiltSign(a, cfg.ax_r1) = TiltSign(b, cfg.ax_r1))

\* C25: for each of the six direction values the lookup is well formed:
\* the height axis is the one the direction names, height axis and the two
\* width axes are the three translation axes, the height sign is +1 for a
\* '+' direction and -1 for a '-' direction, and the two tilt components
\* are the rotations about the two width axes (index of the width axis
\* plus 3), never the rotation about the height axis.
C25_DirectionTable ==
    (mode = "pyramid" /\ rc.direction \in Directions /\ pc # "gen") =>
        LET cfg == DirConfig(rc.direction)
        IN  /\ cfg.ax_h = (CASE rc.direction \in {"X+", "X-"} -> 0
                             [] rc.direction \in {"Y+", "Y-"} -> 1
                             [] OTHER -> 2)
            /\ {cfg.ax_h, cfg.ax_w1, cfg.ax_w2} = 0..2
            /\ cfg.ax_w1 # cfg.ax_w2
            /\ cfg.h_sign = (IF rc.direction \in {"X+", "Y+", "Z+"} THEN 1 ELSE -1)
            /\ cfg.ax_r1 = cfg.ax_w1 + 3
            /\ cfg.ax_r2 = cfg.ax_w2 + 3
            /\ cfg.ax_h + 3 \notin {cfg.ax_r1, cfg.ax_r2}

\* a pyramid of two layers along Y-: the second layer lies 50 mm below the
\* center on Y, its first corner on the negative side of X and Z
C25_Witness ==
    /\ pc = "generated" /\ mode = "pyramid"
    /\ rc.direction = "Y-" /\ rc.layers = 2 /\ rc.height = 50 /\ rc.base_width = 100
    /\ points[5][1] - center_pose[1] = -500
    /\ points[5][0] - center_pose[0] = -250
    /\ points[5][2] - center_pose[2] = -250

\* C26: every generated pyramid base point has the rx, ry, rz of the
\* center pose, for every layer, corner and direction; the orientation of
\* a point changes only in its dither pose.
C26_BaseOrientation ==
    (mode = "pyramid" /\ pc \in {"generated", "tilt", "log_adjust"}) =>
        /\ \A n \in 1..Len(points) : \A k \in 3..5 : points[n][k] = center_pose[k]
        /\ (Tilted /\ rc.tilt_angle # 0) => \E k \in 3..5 : DitherDelta(k) # 0

\* the last point of three layers along Y+ around a rotated center: the
\* base point keeps the center's orientation, its dither pose does not
C26_Witness ==
    /\ Tilted /\ rc.layers = 3 /\ rc.direction = "Y+" /\ rc.tilt_angle = 25
    /\ i = 11
    /\ <<center_pose[3], center_pose[4], center_pose[5]>> = <<31415, 0, -15707>>
    /\ <<points[12][3], points[12][4], points[12][5]>> = <<31415, 0, -15707>>
    /\ p_dither[3] # 31415

\* C30: for every direction, layer and corner, every index used to read or
\* write a pose while the base point and the dither pose are built lies in
\* 0..5; no element outside the 6-element pose is written.
C30_IndicesInBounds ==
    /\ ~ub_oob
    /\ Tilted =>
          LET cfg == DirConfig(rc.direction)
          IN  {cfg.ax_h, cfg.ax_w1, cfg.ax_w2, cfg.ax_r1, cfg.ax_r2,
               PerturbIndex(rc)} \subseteq PoseIdx

\* ---------------------------------------------------------------------
\* The break tests of the waits on their own: the test of each of the
\* three waits applied to readings around the tolerances
\* ---------------------------------------------------------------------
\* center poses of the runs whose waits are examined
ProbeCenters ==
    { MkPose(3000, -2000, 4000, 31415, 0, -15707), MkPose(-1234, 567, 89, 100, -200, 300) }

\* translation errors of a reading (units of 1e-4 m) on both sides of
\* 0.002 m, along one axis and along a diagonal
ProbeShifts ==
    { <<0, 0, 0>>, <<19, 0, 0>>, <<0, 20, 0>>, <<0, 0, -21>>, <<11, 11, 11>>,
      <<12, -12, 12>> }

\* orientation errors of a reading (units of 1e-4 rad) on both sides of
\* 0.05 rad, and one of 3 rad
ProbeTurns ==
    { <<0, 0, 0>>, <<499, 0, 0>>, <<0, 500, 0>>, <<0, 0, -30000>>, <<288, 288, 288>>,
      <<289, -289, 289>> }

\* the reading at the given errors from a pose
ReadingNear(target, dt, dr) ==
    MkPose(target[0] + dt[1], target[1] + dt[2], target[2] + dt[3],
           target[3] + dr[1], target[4] + dr[2], target[5] + dr[3])

\* a run inside one of its waits, the reading cur just taken
InitArr ==
    /\ dashboard = "obj" /\ primary = "obj"
    /\ db_connected = TRUE /\ pri_connected = TRUE
    /\ pc \in WaitPcs
    /\ mode \in (IF pc = "wait_base" THEN {"grid", "pyramid"} ELSE {"pyramid"})
    /\ cb = [log |-> TRUE, capture |-> TRUE, pose |-> TRUE]
    /\ rc \in (IF mode = "pyramid" THEN RunRecipes ELSE {NoRecipe})
    /\ center_pose \in ProbeCenters
    /\ points = (IF mode = "grid" THEN GridPoints(center_pose)
                 ELSE PyramidTargets(center_pose, rc))
    /\ i \in {0, Len(points) - 1}
    /\ p_dither = (IF pc = "wait_base" THEN ZeroPose
                   ELSE DitherPose(points[i + 1], rc, i))
    /\ timeout = (CASE pc = "wait_base" -> BaseBudget
                    [] pc = "wait_dither" -> DITHER_TIMEOUT
                    [] OTHER -> RESTORE_TIMEOUT)
    /\ polls = 0 /\ hits = 0
    /\ first_hit = 0 /\ timed_out_at = 0
    /\ data_lines = << >> /\ outfile = [status |-> "untouched", lines |-> << >>]
    /\ run_result = NoResult("none") /\ gil_held = FALSE
    /\ rot_given = [kind |-> "none", k |-> <<0, 0, 0>>, r |-> <<0, 0, 0>>, m |-> IdentityBasis]
    /\ basis = IdentityBasis /\ rot_vec = <<0, 0, 0>> /\ rot_calls = << >>
    /\ \E dt \in ProbeShifts, dr \in ProbeTurns :
          cur_pose = ReadingNear(WaitTarget, dt, dr)
    /\ arrived = "untested"
    /\ NoCtl
    /\ logged = {} /\ events = << >> /\ deviations = 0
    /\ capture_raised = {}
    /\ ub_oob = (pc # "wait_base" /\ PerturbIndex(rc) \notin PoseIdx)

\* the `if (...) break;` of the wait the run is in, applied to cur
JudgeArrival ==
    /\ pc \in WaitPcs
    /\ arrived = "untested"
    /\ arrived' = (IF Arrived(cur_pose) THEN "break" ELSE "continue")
    /\ UNCHANGED <<rot_given, basis, rot_vec, rot_calls, cur_pose, ctl, link, pc, input,
                   geom, loopv, out, hist, timed_out_at>>

NextArr == JudgeArrival

SpecArr == InitArr /\ [][NextArr]_vars

\* squared error of cur on the components ks against the pose of the wait
ErrorSq(ks) ==
    LET target == IF pc = "wait_dither" THEN p_dither ELSE points[i + 1]
        sq(k)  == (cur_pose[k] - target[k]) * (cur_pose[k] - target[k])
    IN  sq(ks[1]) + sq(ks[2]) + sq(ks[3])

\* C29: a base or restore wait judges convergence from the 3 translation
\* components only, whatever the orientation error, while a dither wait
\* converges only when the translation distance is below 0.002 m and the
\* norm of the 3 rotation differences is below 0.05 rad.
C29_ConvergenceCriteria ==
    arrived # "untested" =>
        /\ pc \in {"wait_base", "wait_restore"} =>
              (arrived = "break" <=> ErrorSq(<<0, 1, 2>>) < POS_TOL * POS_TOL)
        /\ pc = "wait_dither" =>
              (arrived = "break" <=>
                  /\ ErrorSq(<<0, 1, 2>>) < POS_TOL * POS_TOL
                  /\ ErrorSq(<<3, 4, 5>>) < ROT_TOL * ROT_TOL)

\* a restore wait left on a reading 1.9 mm beside its target and turned by
\* 3 rad about z
C29_Witness ==
    /\ pc = "wait_restore" /\ arrived = "break" /\ i = 3
    /\ cur_pose[0] - points[4][0] = 19
    /\ cur_pose[5] - points[4][5] = -30000

\* ---------------------------------------------------------------------
\* The rotation helpers on their own: matrixToRotVec and rotVecToMatrix
\* applied to a range of rotation matrices and rotation vectors
\* ---------------------------------------------------------------------
\* the variables of a run, which the helpers do not touch
runv == <<link, pc, input, geom, loopv, out, hist, timed_out_at, probe, ctl>>

\* the six signed coordinate axes, as whole numbers
SignedAxes ==
    { <<sg, 0, 0>> : sg \in {-1, 1} } \cup { <<0, sg, 0>> : sg \in {-1, 1} }
        \cup { <<0, 0, sg>> : sg \in {-1, 1} }

\* determinant of the matrix with columns a, b, c
Det(a, b, c) ==
    a[1] * (b[2] * c[3] - b[3] * c[2])
  - a[2] * (b[1] * c[3] - b[3] * c[1])
  + a[3] * (b[1] * c[2] - b[2] * c[1])

\* the Vec3 of a whole-number triple
ToVec3(a) == Vec3(a[1] * ONE, a[2] * ONE, a[3] * ONE)

\* the basis with columns a, b, c
MatrixOf(a, b, c) == [X |-> ToVec3(a), Y |-> ToVec3(b), Z |-> ToVec3(c)]

\* the 24 rotations of the cube: identity, 90 and 180 degrees about the
\* coordinate axes, 120 degrees about the diagonals, 180 degrees about the
\* edge directions
CubeGroup ==
    { MatrixOf(t[1], t[2], t[3]) :
        t \in { u \in SignedAxes \X SignedAxes \X SignedAxes : Det(u[1], u[2], u[3]) = 1 } }

\* rotations by 60 degrees about Z and by 36.87 degrees about X
OtherRotations ==
    { [X |-> Vec3(500000, 866025, 0), Y |-> Vec3(-866025, 500000, 0), Z |-> Vec3(0, 0, ONE)],
      [X |-> Vec3(ONE, 0, 0), Y |-> Vec3(0, 800000, 600000), Z |-> Vec3(0, -600000, 800000)] }

\* directions of the axes of the 180-degree rotations tried
HalfTurnAxes ==
    { <<1, 0, 0>>, <<0, 1, 0>>, <<0, 0, 1>>, <<1, 1, 0>>, <<1, 0, -1>>, <<0, 1, 1>>,
      <<3, 4, 0>>, <<1, 1, 1>>, <<1, 2, 2>> }

\* the rotation by 180 degrees about the direction k: 2 k k^T / |k|^2 - I
HalfTurn(k) ==
    LET n2 == k[1] * k[1] + k[2] * k[2] + k[3] * k[3]
        e(a, b) == RoundDiv(2 * k[a] * k[b] * ONE, n2) - (IF a = b THEN ONE ELSE 0)
    IN  [X |-> Vec3(e(1, 1), e(2, 1), e(3, 1)),
         Y |-> Vec3(e(1, 2), e(2, 2), e(3, 2)),
         Z |-> Vec3(e(1, 3), e(2, 3), e(3, 3))]

\* rotation vectors tried: 0; 30 degrees, 90 degrees and 3 rad about the
\* signed coordinate axes; 120 degrees about (1,1,1); 90 degrees about (1,1,0)
RotVectors ==
    { <<0, 0, 0>>, <<1209200, 1209200, 1209200>>, <<1110721, 1110721, 0>> }
        \cup { <<a[1] * t, a[2] * t, a[3] * t>> :
                  a \in SignedAxes, t \in {523599, 1570796, 3000000} }

Givens ==
    { [kind |-> "matrix", k |-> <<0, 0, 0>>, r |-> <<0, 0, 0>>, m |-> mm] :
        mm \in CubeGroup \cup OtherRotations }
    \cup { [kind |-> "halfturn", k |-> kk, r |-> <<0, 0, 0>>, m |-> HalfTurn(kk)] :
            kk \in HalfTurnAxes }
    \cup { [kind |-> "vector", k |-> <<0, 0, 0>>, r |-> rr, m |-> IdentityBasis] :
            rr \in RotVectors }

InitRot ==
    /\ dashboard = "null" /\ primary = "null"
    /\ db_connected = FALSE /\ pri_connected = FALSE
    /\ pc = "idle" /\ mode = "none"
    /\ cb = [log |-> TRUE, capture |-> TRUE, pose |-> TRUE]
    /\ rc = NoRecipe
    /\ center_pose = ZeroPose /\ points = << >>
    /\ i = 0 /\ timeout = 0 /\ p_dither = ZeroPose /\ polls = 0 /\ hits = 0
    /\ first_hit = 0 /\ timed_out_at = 0
    /\ data_lines = << >> /\ outfile = [status |-> "untouched", lines |-> << >>]
    /\ run_result = NoResult("none") /\ gil_held = TRUE
    /\ logged = {} /\ events = << >> /\ deviations = 0
    /\ capture_raised = {} /\ ub_oob = FALSE
    /\ NoProbe
    /\ NoCtl
    /\ rot_given \in Givens
    /\ basis = rot_given.m
    /\ rot_vec = rot_given.r
    /\ rot_calls = << >>

\* rot_vec = matrixToRotVec(X, Y, Z)
CallMatrixToRotVec ==
    /\ \/ rot_calls = << >> /\ rot_given.kind \in {"matrix", "halfturn"}
       \/ rot_calls = <<"rotVecToMatrix">>
    /\ rot_vec' = matrixToRotVec(basis.X, basis.Y, basis.Z)
    /\ rot_calls' = Append(rot_calls, "matrixToRotVec")
    /\ UNCHANGED <<rot_given, basis, runv>>

\* rotVecToMatrix(rot_vec[0], rot_vec[1], rot_vec[2], X, Y, Z)
CallRotVecToMatrix ==
    /\ \/ rot_calls = << >> /\ rot_given.kind = "vector"
       \/ rot_calls = <<"matrixToRotVec">>
    /\ basis' = rotVecToMatrix(rot_vec[1], rot_vec[2], rot_vec[3])
    /\ rot_calls' = Append(rot_calls, "rotVecToMatrix")
    /\ UNCHANGED <<rot_given, rot_vec, runv>>

NextRot == CallMatrixToRotVec \/ CallRotVecToMatrix

SpecRot == InitRot /\ [][NextRot]_vars

\* equal up to the rounding of the arithmetic (2e-5)
Close(a, b) == Abs(a - b) <= 20

Vec3Close(u, w) == Close(u.x, w.x) /\ Close(u.y, w.y) /\ Close(u.z, w.z)

BasisClose(m, n) == Vec3Close(m.X, n.X) /\ Vec3Close(m.Y, n.Y) /\ Vec3Close(m.Z, n.Z)

Trace(m) == m.X.x + m.Y.y + m.Z.z

\* the angle of a rotation vector
Angle(r) == Sqrt(Mul(r[1], r[1]) + Mul(r[2], r[2]) + Mul(r[3], r[3]))

\* C16: for every rotation matrix with trace strictly between -1 and 3,
\* given as columns X, Y, Z, rotVecToMatrix(matrixToRotVec(X, Y, Z)) gives
\* back the same X, Y, Z.
C16_MatrixRoundTrip ==
    (/\ rot_given.kind = "matrix"
     /\ rot_calls = <<"matrixToRotVec", "rotVecToMatrix">>
     /\ Trace(rot_given.m) > -ONE
     /\ Trace(rot_given.m) < 3 * ONE)
        => BasisClose(basis, rot_given.m)

\* C17: for every rotation vector r with angle strictly between 0 and pi,
\* matrixToRotVec(rotVecToMatrix(r)) gives back r.
C17_VectorRoundTrip ==
    (/\ rot_calls = <<"rotVecToMatrix", "matrixToRotVec">>
     /\ Angle(rot_given.r) > 0
     /\ Angle(rot_given.r) < PI)
        => /\ Close(rot_vec[1], rot_given.r[1])
           /\ Close(rot_vec[2], rot_given.r[2])
           /\ Close(rot_vec[3], rot_given.r[3])

\* C18: for the 180-degree rotation about any direction k, matrixToRotVec
\* returns a vector parallel to k (its cross product with k vanishes) of
\* magnitude pi.
C18_HalfTurnAxis ==
    (rot_given.kind = "halfturn" /\ rot_calls = <<"matrixToRotVec">>) =>
        LET k == rot_given.k IN
        /\ Abs(rot_vec[2] * k[3] - rot_vec[3] * k[2]) <= 100
        /\ Abs(rot_vec[3] * k[1] - rot_vec[1] * k[3]) <= 100
        /\ Abs(rot_vec[1] * k[2] - rot_vec[2] * k[1]) <= 100
        /\ Close(Angle(rot_vec), PI)

\* C19: matrixToRotVec of the identity basis X = (1,0,0), Y = (0,1,0),
\* Z = (0,0,1) returns (0,0,0), and rotVecToMatrix(0,0,0) sets X, Y, Z to
\* the identity basis.
C19_Identity ==
    LET I3 == MatrixOf(<<1, 0, 0>>, <<0, 1, 0>>, <<0, 0, 1>>) IN
    /\ (rot_given.kind = "matrix" /\ rot_given.m = I3 /\ rot_calls # << >>) =>
          rot_vec = <<0, 0, 0>>
    /\ (rot_given.kind = "vector" /\ rot_given.r = <<0, 0, 0>> /\ rot_calls # << >>) =>
          basis = I3

\* rotVecToMatrix(0,0,0) gave the identity basis and matrixToRotVec of that
\* basis gave (0,0,0)
C19_Witness ==
    /\ rot_given.kind = "vector" /\ rot_given.r = <<0, 0, 0>>
    /\ rot_calls = <<"rotVecToMatrix", "matrixToRotVec">>
    /\ basis.X = Vec3(ONE, 0, 0) /\ basis.Y = Vec3(0, ONE, 0) /\ basis.Z = Vec3(0, 0, ONE)
    /\ rot_vec = <<0, 0, 0>>


\* ---------------------------------------------------------------------
\* EliteRobotController on its own: connect, disconnect, isConnected,
\* setSpeed, jog, moveTo and stop called in any order, for each of the two
\* implementations (the class in elite_ext.cpp and the one of namespace
\* ELITE_EXTENSION)
\* ---------------------------------------------------------------------
Impls == {"elite_ext", "ELITE_EXTENSION"}

\* what the controller and the wrapper do not touch
norun == <<pc, input, geom, loopv, out, hist, timed_out_at, rot_given, basis, rot_vec,
           rot_calls, probe>>
wrapv == <<handle, pose_buf>>

\* a call with its arguments, its result and the script it submitted
Call(op, args, ret, script) ==
    [op |-> op, args |-> args, ret |-> ret, script |-> script,
     scaling |-> << >>, read |-> << >>]

\* a freshly constructed EliteRobotController of either implementation
InitCtl ==
    /\ dashboard = "null" /\ primary = "null"
    /\ db_connected = FALSE /\ pri_connected = FALSE
    /\ pc = "idle" /\ mode = "none"
    /\ cb = [log |-> TRUE, capture |-> TRUE, pose |-> TRUE]
    /\ rc = NoRecipe
    /\ center_pose = ZeroPose /\ points = << >>
    /\ i = 0 /\ timeout = 0 /\ p_dither = ZeroPose /\ polls = 0 /\ hits = 0
    /\ first_hit = 0 /\ timed_out_at = 0
    /\ data_lines = << >> /\ outfile = [status |-> "untouched", lines |-> << >>]
    /\ run_result = NoResult("none") /\ gil_held = TRUE
    /\ logged = {} /\ events = << >> /\ deviations = 0
    /\ capture_raised = {} /\ ub_oob = FALSE
    /\ rot_given = [kind |-> "none", k |-> <<0, 0, 0>>, r |-> <<0, 0, 0>>, m |-> IdentityBasis]
    /\ basis = IdentityBasis /\ rot_vec = <<0, 0, 0>> /\ rot_calls = << >>
    /\ NoProbe
    /\ impl \in Impls
    /\ rtsi = "null" /\ rtsi_connected = FALSE
    /\ is_connected = FALSE /\ global_speed = DefaultSpeed
    /\ want_connected = FALSE
    /\ last_call = NoCall
    /\ handle = "null" /\ pose_buf = <<0, 0, 0, 0, 0, 0>>

\* the call inside the try block of connect that throws, if any: the
\* RtsiIOInterface constructor, one of the three connect calls, or the
\* powerOn / brakeRelease pair
ConnectThrows == {"none", "rtsi_ctor", "db_connect", "pri_connect", "rtsi_connect", "init"}

\* connect(ip, recipe_dir)
CtlConnect ==
    \E th \in ConnectThrows, db_ok, pri_ok, rtsi_ok \in BOOLEAN :
        LET made == th # "rtsi_ctor"
            db   == db_ok /\ th \notin {"rtsi_ctor", "db_connect"}
            pri  == pri_ok /\ th \notin {"rtsi_ctor", "db_connect", "pri_connect"}
            rt   == rtsi_ok /\ th \in {"none", "init"}
            both == db /\ pri /\ th \in {"none", "init"}
            ret  == both /\ th = "none"
        IN  /\ th = "init" => (db_ok /\ pri_ok)
            /\ dashboard' = "obj" /\ primary' = "obj"
            /\ rtsi' = (IF made THEN "obj" ELSE rtsi)
            /\ db_connected' = db /\ pri_connected' = pri
            /\ rtsi_connected' = (IF made THEN rt ELSE rtsi_connected)
            /\ is_connected' = (IF both THEN TRUE ELSE is_connected)
            /\ want_connected' = ret
            /\ last_call' = Call("connect", << >>, ret, NoScript)
            /\ UNCHANGED <<impl, global_speed, wrapv, norun>>

\* disconnect()
CtlDisconnect ==
    /\ pri_connected' = FALSE /\ rtsi_connected' = FALSE /\ db_connected' = FALSE
    /\ is_connected' = FALSE
    /\ want_connected' = FALSE
    /\ last_call' = Call("disconnect", << >>, FALSE, NoScript)
    /\ UNCHANGED <<dashboard, primary, rtsi, impl, global_speed, wrapv, norun>>

\* isConnected()
CtlIsConnected ==
    /\ last_call' = Call("isConnected", << >>, is_connected, NoScript)
    /\ UNCHANGED <<link, rtsi, rtsi_connected, impl, is_connected, global_speed,
                   want_connected, wrapv, norun>>

\* percent values handed to setSpeed, in tenths of a percent: negative,
\* zero, 0.5 %, 1 %, 37 %, 100 %, 250 %
Percents == {-500, 0, 5, 10, 370, 1000, 2500}

\* percent / 100.0, in units of 1e-4
PercentToFraction(p10) == p10 * 10

Max2(a, b) == IF a >= b THEN a ELSE b
Min2(a, b) == IF a <= b THEN a ELSE b

\* variant: the fraction is only capped at 1.0
ClampSpeed_noFloor(f) == Min2(10000, f)

\* std::max(0.01, std::min(1.0, f))
ClampSpeed(f) == Max2(100, Min2(10000, f))

\* setSpeed(percent)
CtlSetSpeed ==
    \E p10 \in Percents :
        /\ global_speed' = ClampSpeed(PercentToFraction(p10))
        /\ last_call' = [Call("setSpeed", <<p10>>, FALSE, NoScript) EXCEPT
                           !.scaling = IF dashboard # "null"
                                       THEN <<TruncDiv(p10, 10)>> ELSE << >>]
        /\ UNCHANGED <<link, rtsi, rtsi_connected, impl, is_connected, want_connected,
                       wrapv, norun>>

\* variant: the moves only test the primary-port object
MayMove_linkOnly == primary # "null"

\* the negation of `if (!is_connected || !primary) return false;`
MayMove == is_connected /\ primary # "null"

\* axes on which jog sets an offset: `if (axis >= 0 && axis < 3)` in
\* elite_ext.cpp, `if (axis >= 0 && axis < 6)` in ELITE_EXTENSION
JogAxes(im) == IF im = "elite_ext" THEN 0..2 ELSE 0..5

\* elite_ext.cpp reads the RTSI pose first and returns false on a reading
\* with fewer than 6 values; ELITE_EXTENSION does not read it
ReadsPoseFirst(im) == im = "elite_ext"

\* double offsets[6] of jog (units of 1e-4 m, 1e-4 rad)
JogOffsets(im, axis, direction, distance_mm) ==
    [k \in PoseIdx |-> IF k = axis /\ axis \in JogAxes(im)
                       THEN direction * MmToM(distance_mm) ELSE 0]

\* the arguments jog is called with
JogAxisArgs == {-1, 0, 1, 2, 3, 4, 5, 6}
JogDirections == {-1, 1}
JogDistances == {10}

\* jog(axis, direction, distance_mm)
CtlJog ==
    \E axis \in JogAxisArgs, direction \in JogDirections, distance_mm \in JogDistances,
       full \in BOOLEAN, accepted \in SendScriptResults :
        LET args == <<axis, direction, distance_mm>> IN
        /\ last_call' =
              IF ~MayMove THEN Call("jog", args, FALSE, NoScript)
              ELSE IF ReadsPoseFirst(impl) /\ ~full THEN Call("jog", args, FALSE, NoScript)
              ELSE Call("jog", args, accepted,
                        [kind |-> "movel_pose_add",
                         args |-> JogOffsets(impl, axis, direction, distance_mm),
                         v |-> global_speed])
        /\ UNCHANGED <<link, rtsi, rtsi_connected, impl, is_connected, global_speed,
                       want_connected, wrapv, norun>>

\* the poses moveTo is called with (mm, degrees)
MoveArgs == { <<300, -200, 400, 180, 0, -90>>, <<0, 0, 0, 0, 0, 0>> }

\* [x / 1000.0, ..., rx / 57.29578, ...] of moveTo
MoveTarget(p) ==
    MkPose(MmToM(p[1]), MmToM(p[2]), MmToM(p[3]),
           DegToRad(p[4]), DegToRad(p[5]), DegToRad(p[6]))

\* moveTo(x, y, z, rx, ry, rz)
CtlMoveTo ==
    \E p \in MoveArgs, accepted \in SendScriptResults :
        /\ last_call' =
              IF ~MayMove THEN Call("moveTo", p, FALSE, NoScript)
              ELSE Call("moveTo", p, accepted,
                        [kind |-> "movel", args |-> MoveTarget(p), v |-> global_speed])
        /\ UNCHANGED <<link, rtsi, rtsi_connected, impl, is_connected, global_speed,
                       want_connected, wrapv, norun>>

\* stop()
CtlStop ==
    \E accepted \in SendScriptResults :
        /\ last_call' =
              IF primary = "null" THEN Call("stop", << >>, FALSE, NoScript)
              ELSE Call("stop", << >>, accepted,
                        [kind |-> "stopj", args |-> << >>, v |-> 0])
        /\ UNCHANGED <<link, rtsi, rtsi_connected, impl, is_connected, global_speed,
                       want_connected, wrapv, norun>>

NextCtl ==
    \/ CtlConnect
    \/ CtlDisconnect
    \/ CtlIsConnected
    \/ CtlSetSpeed
    \/ CtlJog
    \/ CtlMoveTo
    \/ CtlStop

SpecCtl == InitCtl /\ [][NextCtl]_vars

\* C34 (state part): the flag isConnected() returns is true exactly when
\* the most recent connect() returned true and disconnect() has not been
\* called since.
C34_FlagFollowsConnect == is_connected = want_connected

\* C34 (step part): a call of isConnected() returns true exactly when the
\* most recent connect() returned true and disconnect() has not been
\* called since.
C34_AnswerFollowsConnect ==
    last_call'.op = "isConnected" => last_call'.ret = want_connected'

\* C34: after any sequence of connect and disconnect calls isConnected()
\* is true exactly when the most recent connect() returned true and
\* disconnect() has not been called since; a connect() that fails after a
\* successful one leaves isConnected() false.
C34_ConnectedIffLastConnect ==
    []C34_FlagFollowsConnect /\ [][C34_AnswerFollowsConnect]_vars


\* the script kinds that are motion commands
MoveKinds == {"movel", "movel_pose_add"}

\* C35: whenever isConnected() is false, a call of moveTo or jog returns
\* false and submits no script (neither call changes the flag, so the flag
\* after the call is the flag the call saw).
C35_NoMoveUnconnected ==
    (last_call.op \in {"jog", "moveTo"} /\ ~is_connected) =>
        /\ last_call.ret = FALSE
        /\ last_call.script = NoScript

\* moveTo was refused after a disconnect that followed a successful
\* connect: the primary-port object still exists
C35_Witness ==
    /\ last_call.op = "moveTo" /\ ~is_connected /\ primary = "obj"
    /\ last_call.ret = FALSE /\ last_call.script = NoScript

\* C36 (state part): the stored speed fraction lies within [0.01, 1.0],
\* and every movel script of moveTo and jog carries it as its v= value.
C36_SpeedInRange ==
    /\ global_speed >= 100 /\ global_speed <= 10000
    /\ last_call.script.kind \in MoveKinds =>
          /\ last_call.script.v = global_speed
          /\ last_call.script.v >= 100 /\ last_call.script.v <= 10000
    /\ last_call.op = "setSpeed" =>
          global_speed = (IF last_call.args[1] <= 10 THEN 100
                          ELSE IF last_call.args[1] >= 1000 THEN 10000
                          ELSE last_call.args[1] * 10)

\* C36 (step part): only setSpeed changes the stored fraction.
C36_OnlySetSpeed ==
    global_speed' # global_speed => last_call'.op = "setSpeed"

\* C36: after any sequence of setSpeed calls with any percent values the
\* stored speed fraction, and so the v= value of every movel script of
\* moveTo and jog, lies within [0.01, 1.0]; before any setSpeed call it is
\* 0.5.
C36_SpeedFraction ==
    global_speed = DefaultSpeed /\ []C36_SpeedInRange /\ [][C36_OnlySetSpeed]_vars

\* a jog submitted with v = 0.01 after setSpeed(-50)
C36_Witness ==
    /\ last_call.op = "jog" /\ last_call.script.kind = "movel_pose_add"
    /\ last_call.script.v = 100 /\ global_speed = 100

\* C37: for every axis in 0..5 and direction +1 or -1, a jog on a
\* connected controller of either implementation submits one relative
\* move whose offset is zero everywhere except component `axis`, which
\* is direction x distance_mm / 1000.
C37_JogOffset ==
    (/\ last_call.op = "jog" /\ is_connected
     /\ last_call.args[1] \in 0..5 /\ last_call.args[2] \in {-1, 1}) =>
        /\ last_call.script.kind = "movel_pose_add"
        /\ last_call.script.args =
              [k \in PoseIdx |-> IF k = last_call.args[1]
                                 THEN last_call.args[2] * MmToM(last_call.args[3])
                                 ELSE 0]


\* ---------------------------------------------------------------------
\* Elite_GetPose of the C wrapper on its own, between Elite_ConnectRTSI
\* and Elite_DisconnectRTSI calls, on the handle Elite_Create returned
\* ---------------------------------------------------------------------
\* what the caller's buffer holds before the first call
InitialBuffers == { <<7, 7, 7, 7, 7, 7>>, <<0, 0, 0, 0, 0, 0>>, <<-1, 2, -3, 4, -5, 6>> }

\* what ctx->rtsi->getActualTCPPose() may return (m, rad in units of 1e-4):
\* 6 values, more than 6, fewer than 6, none
RtsiReadings ==
    { <<3000, -2000, 4000, 31415, 0, -15707>>, <<1, 2, 3, 4, 5, 6>>,
      <<-5, 0, 5, 0, 0, 31415>>, <<11, 12, 13, 14, 15, 16, 17>>, <<9, 9, 9>>, <<8, 8, 8, 8, 8>>, << >> }

\* the handle Elite_Create returned (nullptr when the driver could not be
\* initialised), with or without an RTSI object, connected or not
InitPose ==
    /\ dashboard = "null" /\ primary = "null"
    /\ db_connected = FALSE /\ pri_connected = FALSE
    /\ pc = "idle" /\ mode = "none"
    /\ cb = [log |-> TRUE, capture |-> TRUE, pose |-> TRUE]
    /\ rc = NoRecipe
    /\ center_pose = ZeroPose /\ points = << >>
    /\ i = 0 /\ timeout = 0 /\ p_dither = ZeroPose /\ polls = 0 /\ hits = 0
    /\ first_hit = 0 /\ timed_out_at = 0
    /\ data_lines = << >> /\ outfile = [status |-> "untouched", lines |-> << >>]
    /\ run_result = NoResult("none") /\ gil_held = TRUE
    /\ logged = {} /\ events = << >> /\ deviations = 0
    /\ capture_raised = {} /\ ub_oob = FALSE
    /\ rot_given = [kind |-> "none", k |-> <<0, 0, 0>>, r |-> <<0, 0, 0>>, m |-> IdentityBasis]
    /\ basis = IdentityBasis /\ rot_vec = <<0, 0, 0>> /\ rot_calls = << >>
    /\ NoProbe
    /\ impl = "elite_ext"
    /\ is_connected = FALSE /\ global_speed = DefaultSpeed
    /\ want_connected = FALSE
    /\ last_call = NoCall
    /\ handle \in {"null", "ctx"}
    /\ rtsi \in (IF handle = "ctx" THEN {"null", "obj"} ELSE {"null"})
    /\ rtsi_connected \in (IF rtsi = "obj" THEN BOOLEAN ELSE {FALSE})
    /\ pose_buf \in InitialBuffers

\* variant: the values are copied as far as the reading goes, the size is
\* tested afterwards
CopyPose_eager(buf, vec) ==
    [k \in 1..6 |-> IF k <= Len(vec) THEN vec[k] ELSE buf[k]]

\* if (vec.size() >= 6) { for (int i = 0; i < 6; ++i) pose[i] = vec[i]; }
CopyPose(buf, vec) ==
    IF Len(vec) >= 6 THEN [k \in 1..6 |-> vec[k]] ELSE buf

\* the path a call of Elite_GetPose takes
GetPosePath(h, given, raises, vec) ==
    IF h = "null" THEN "null_handle"
    ELSE IF ~given THEN "null_buffer"
    ELSE IF rtsi = "null" THEN "no_rtsi"
    ELSE IF ~rtsi_connected THEN "not_connected"
    ELSE IF raises THEN "raised"
    ELSE IF Len(vec) >= 6 THEN "copied"
    ELSE "short"

\* Elite_GetPose(handle, pose): the caller passes its handle or nullptr
\* and its buffer or nullptr; the read may raise
Elite_GetPose ==
    \E h \in {"null", handle}, given, raises \in BOOLEAN, vec \in RtsiReadings :
        LET path == GetPosePath(h, given, raises, vec)
            read == path \in {"copied", "short"}
        IN  /\ pose_buf' = (IF read THEN CopyPose(pose_buf, vec) ELSE pose_buf)
            /\ last_call' = [Call("Elite_GetPose", <<h, given, path>>, path = "copied",
                                  NoScript)
                             EXCEPT !.read = IF read THEN vec ELSE << >>]
            /\ UNCHANGED <<link, rtsi, rtsi_connected, impl, is_connected, global_speed,
                           want_connected, handle, norun>>

\* Elite_ConnectRTSI(handle)
Elite_ConnectRTSI ==
    \E h \in {"null", handle}, ok \in BOOLEAN :
        LET calls == h # "null" /\ rtsi # "null" IN
        /\ rtsi_connected' = (IF calls THEN ok ELSE rtsi_connected)
        /\ last_call' = Call("Elite_ConnectRTSI", <<h>>, calls /\ ok, NoScript)
        /\ UNCHANGED <<link, rtsi, impl, is_connected, global_speed, want_connected,
                       wrapv, norun>>

\* Elite_DisconnectRTSI(handle)
Elite_DisconnectRTSI ==
    \E h \in {"null", handle} :
        LET calls == h # "null" /\ rtsi # "null" IN
        /\ rtsi_connected' = (IF calls THEN FALSE ELSE rtsi_connected)
        /\ last_call' = Call("Elite_DisconnectRTSI", <<h>>, calls, NoScript)
        /\ UNCHANGED <<link, rtsi, impl, is_connected, global_speed, want_connected,
                       wrapv, norun>>

NextPose ==
    \/ Elite_GetPose
    \/ Elite_ConnectRTSI
    \/ Elite_DisconnectRTSI

SpecPose == InitPose /\ [][NextPose]_vars

\* C38 (step part): a call of Elite_GetPose that returns false leaves the
\* buffer as it was; one that returns true has put the first six values of
\* the reading into it.
C38_WritesOnlyOnTrue ==
    last_call'.op = "Elite_GetPose" =>
        /\ last_call'.ret = FALSE => pose_buf' = pose_buf
        /\ last_call'.ret = TRUE =>
              /\ Len(last_call'.read) >= 6
              /\ pose_buf' = SubSeq(last_call'.read, 1, 6)

\* C38 (state part): a call with a null handle or buffer, without an RTSI
\* object, with an RTSI link that is not connected, with a read that
\* raised or with a reading of fewer than 6 values returned false.
C38_FalseOnEveryFailure ==
    last_call.op = "Elite_GetPose" =>
        /\ (last_call.args[1] = "null" \/ ~last_call.args[2]) => ~last_call.ret
        /\ (rtsi = "null" \/ ~rtsi_connected) => ~last_call.ret
        /\ last_call.args[3] \in {"raised", "short"} => ~last_call.ret
        /\ Len(last_call.read) < 6 => ~last_call.ret

\* C38: Elite_GetPose writes the caller's 6-element buffer only when it
\* returns true: with a null handle or buffer, an absent or unconnected
\* RTSI link, a reading of fewer than 6 values or a read that raises, it
\* returns false and leaves the buffer unchanged.
C38_BufferUntouchedOnFalse ==
    []C38_FalseOnEveryFailure /\ [][C38_WritesOnlyOnTrue]_vars

\* a call that got a reading of 3 values returned false; the buffer still
\* holds the pose an earlier call put there
C38_Witness ==
    /\ last_call.op = "Elite_GetPose" /\ last_call.args[3] = "short"
    /\ last_call.read = <<9, 9, 9>> /\ last_call.ret = FALSE
    /\ pose_buf = <<1, 2, 3, 4, 5, 6>>

====
